---------------------------- MODULE Spec2Model ----------------------------
(***************************************************************************)
(* The workflow event subsystem of construction-industry-agents            *)
(* (src/workflow_events.py): the SQLite event store (EventStorage), the    *)
(* per-workflow EventGenerator and the EventManager registry, with the     *)
(* history endpoint of the SSE server that reads the store.                *)
(*                                                                         *)
(* Python values are tagged pairs <<tag, payload>>; a Python dict is the   *)
(* sequence of its <<key, value>> items in insertion order; text (an ISO   *)
(* timestamp, a JSON document) is a sequence of characters or tokens, so   *)
(* that formatting, parsing and the store's text ordering are computed.    *)
(* A record constructor lists its fields in the order TLC sorts them in    *)
(* (the order the names first occur in this module), so that no value is   *)
(* rearranged after the workers share it.                                  *)
(***************************************************************************)
EXTENDS Integers, Sequences, FiniteSets, TLC

(***************************************************************************)
(* Bounds of the model.                                                    *)
(***************************************************************************)
\* rows the store may hold
MaxRows == 2
\* events one generator may create
MaxEvents == 2
\* ticks (half seconds) the wall clock may advance
MaxTicks == 1
\* handlers one generator may register
MaxHandlers == 2
\* generator objects an EventManager may construct
MaxGenerators == 3
\* heartbeats one stream may yield
MaxBeats == 2
\* items the first supplier response may carry
MaxOffers == 2
\* mock workflow simulations one mock server may start
MaxRuns == 2
\* broadcast loop threads one server may start
MaxLoops == 2

(***************************************************************************)
(* Python's None, and small helpers.                                       *)
(***************************************************************************)
None == <<"none", 0>>

Range(s) == {s[i] : i \in 1..Len(s)}

Min(a, b) == IF a < b THEN a ELSE b

(***************************************************************************)
(* Python dict: items in insertion order, keys unique.                     *)
(***************************************************************************)
DictHas(d, k) == \E i \in 1..Len(d) : d[i][1] = k

DictGet(d, k) == d[CHOOSE i \in 1..Len(d) : d[i][1] = k][2]

\* d[k] = v: an existing key keeps its place
DictSet(d, k, v) ==
    IF DictHas(d, k)
    THEN [i \in 1..Len(d) |-> IF d[i][1] = k THEN <<k, v>> ELSE d[i]]
    ELSE Append(d, <<k, v>>)

\* del d[k]
DictDel(d, k) == SelectSeq(d, LAMBDA it : it[1] # k)

\* list(d.keys())
DictKeys(d) == [i \in 1..Len(d) |-> d[i][1]]

(***************************************************************************)
(* json.dumps / json.loads on tagged Python values:                        *)
(*   <<"str", s>> <<"int", n>> <<"float", h>> (the float h/2)               *)
(*   <<"bool", b>> None <<"list", items>> <<"tuple", items>>               *)
(*   <<"dict", items>> <<"set", items>> (no JSON encoding)                 *)
(* A JSON text is its token sequence.                                      *)
(***************************************************************************)
IntToStr(n) == <<"0", "1", "2", "3", "4", "5", "6", "7", "8", "9">>[n + 1]

\* the JSON object key json.dumps writes for a dict key (skipkeys=False)
KeyOk(k) == k[1] \in {"str", "int", "bool", "none"}

KeyToStr(k) ==
    CASE k[1] = "str" -> k[2]
      [] k[1] = "int" -> IntToStr(k[2])
      [] k[1] = "bool" -> IF k[2] THEN "true" ELSE "false"
      [] k[1] = "none" -> "null"

RECURSIVE Serializable(_)
Serializable(v) ==
    CASE v[1] \in {"str", "int", "float", "bool", "none"} -> TRUE
      [] v[1] \in {"list", "tuple"} ->
           \A i \in 1..Len(v[2]) : Serializable(v[2][i])
      [] v[1] = "dict" ->
           \A i \in 1..Len(v[2]) : KeyOk(v[2][i][1]) /\ Serializable(v[2][i][2])
      [] OTHER -> FALSE

RECURSIVE json_dumps(_)
RECURSIVE DumpItems(_, _)
RECURSIVE DumpPairs(_, _)
DumpItems(items, i) ==
    IF i > Len(items) THEN <<>>
    ELSE (IF i > 1 THEN << <<"p", ",">> >> ELSE <<>>)
         \o json_dumps(items[i]) \o DumpItems(items, i + 1)

DumpPairs(items, i) ==
    IF i > Len(items) THEN <<>>
    ELSE (IF i > 1 THEN << <<"p", ",">> >> ELSE <<>>)
         \o << <<"s", KeyToStr(items[i][1])>>, <<"p", ":">> >>
         \o json_dumps(items[i][2]) \o DumpPairs(items, i + 1)

json_dumps(v) ==
    CASE v[1] = "str" -> << <<"s", v[2]>> >>
      [] v[1] = "int" -> << <<"i", v[2]>> >>
      [] v[1] = "float" -> << <<"f", v[2]>> >>
      [] v[1] = "bool" -> << <<"lit", IF v[2] THEN "true" ELSE "false">> >>
      [] v[1] = "none" -> << <<"lit", "null">> >>
      [] v[1] \in {"list", "tuple"} ->
           << <<"p", "[">> >> \o DumpItems(v[2], 1) \o << <<"p", "]">> >>
      [] v[1] = "dict" ->
           << <<"p", "{">> >> \o DumpPairs(v[2], 1) \o << <<"p", "}">> >>

\* the parser returns <<value, index of the next token>>
RECURSIVE ParseValue(_, _)
RECURSIVE ParseItems(_, _, _)
RECURSIVE ParsePairs(_, _, _)
ParseItems(t, i, acc) ==
    LET r == ParseValue(t, i)
        acc2 == Append(acc, r[1])
    IN  IF t[r[2]] = <<"p", ",">>
        THEN ParseItems(t, r[2] + 1, acc2)
        ELSE << <<"list", acc2>>, r[2] + 1 >>

ParsePairs(t, i, acc) ==
    LET r == ParseValue(t, i + 2)
        acc2 == DictSet(acc, <<"str", t[i][2]>>, r[1])
    IN  IF t[r[2]] = <<"p", ",">>
        THEN ParsePairs(t, r[2] + 1, acc2)
        ELSE << <<"dict", acc2>>, r[2] + 1 >>

ParseValue(t, i) ==
    CASE t[i][1] = "s" -> << <<"str", t[i][2]>>, i + 1 >>
      [] t[i][1] = "i" -> << <<"int", t[i][2]>>, i + 1 >>
      [] t[i][1] = "f" -> << <<"float", t[i][2]>>, i + 1 >>
      [] t[i][1] = "lit" ->
           << (CASE t[i][2] = "true" -> <<"bool", TRUE>>
                 [] t[i][2] = "false" -> <<"bool", FALSE>>
                 [] t[i][2] = "null" -> None), i + 1 >>
      [] t[i] = <<"p", "[">> ->
           IF t[i + 1] = <<"p", "]">> THEN << <<"list", <<>> >>, i + 2 >>
           ELSE ParseItems(t, i + 1, <<>>)
      [] t[i] = <<"p", "{">> ->
           IF t[i + 1] = <<"p", "}">> THEN << <<"dict", <<>> >>, i + 2 >>
           ELSE ParsePairs(t, i + 1, <<>>)

json_loads(t) == ParseValue(t, 1)[1]

\* Python truthiness of a value handed as data or metadata
Truthy(v) ==
    CASE v[1] = "none" -> FALSE
      [] v[1] \in {"dict", "list", "tuple", "set"} -> Len(v[2]) > 0
      [] v[1] = "bool" -> v[2]
      [] v[1] \in {"int", "float"} -> v[2] # 0
      [] OTHER -> TRUE

EmptyDict == <<"dict", <<>> >>

(***************************************************************************)
(* datetime: [s, us] within one minute of one day; the wall clock counts   *)
(* half seconds.  isoformat writes "SS" or "SS.ffffff" (the date, hour and *)
(* minute prefix is the same for every instant of the model); a text is    *)
(* the sequence of its character codes.                                    *)
(***************************************************************************)
datetime_at(tick) == [s |-> tick \div 2, us |-> (tick % 2) * 500000]

Pow10(k) == CASE k = 0 -> 1 [] k = 1 -> 10 [] k = 2 -> 100 [] k = 3 -> 1000
              [] k = 4 -> 10000 [] k = 5 -> 100000

\* zero-padded decimal digits of n, width w, as character codes
Digits(n, w) == [i \in 1..w |-> 48 + ((n \div Pow10(w - i)) % 10)]

\* datetime.isoformat(): the fraction is written only when microsecond # 0
isoformat(dt) ==
    Digits(dt.s, 2) \o (IF dt.us = 0 THEN <<>> ELSE <<46>> \o Digits(dt.us, 6))

RECURSIVE ParseInt(_, _)
ParseInt(txt, n) ==
    IF n = 0 THEN 0 ELSE 10 * ParseInt(txt, n - 1) + (txt[n] - 48)

\* datetime.fromisoformat()
fromisoformat(txt) ==
    [s |-> ParseInt(SubSeq(txt, 1, 2), 2),
     us |-> IF Len(txt) > 2 THEN ParseInt(SubSeq(txt, 4, 9), 6) ELSE 0]

(***************************************************************************)
(* SQLite: column values, the BINARY collation of TEXT, ORDER BY and LIMIT *)
(***************************************************************************)
NULL == <<"null", 0>>

\* parameter binding of str / float / None (TEXT and REAL affinity)
SqlBind(v) ==
    CASE v[1] = "none" -> NULL
      [] v[1] = "str" -> <<"text", v[2]>>
      [] v[1] = "float" -> <<"real", v[2]>>
      [] v[1] = "int" -> <<"real", 2 * v[2]>>

\* the Python value sqlite3 returns for a column value
SqlFetch(c) ==
    CASE c[1] = "null" -> None
      [] c[1] = "text" -> <<"str", c[2]>>
      [] c[1] = "real" -> <<"float", c[2]>>

\* memcmp of the common prefix, then the shorter text first
RECURSIVE TextLess(_, _)
TextLess(a, b) ==
    IF Len(b) = 0 THEN FALSE
    ELSE IF Len(a) = 0 THEN TRUE
    ELSE IF a[1] # b[1] THEN a[1] < b[1]
    ELSE TextLess(Tail(a), Tail(b))

\* the orders of ORDER BY timestamp ASC
OrderByTimestampAsc(rows, idx) ==
    {p \in [1..Cardinality(idx) -> idx] :
        /\ \A i, j \in 1..Cardinality(idx) : i # j => p[i] # p[j]
        /\ \A i \in 1..(Cardinality(idx) - 1) :
              ~TextLess(rows[p[i + 1]].timestamp, rows[p[i]].timestamp)}

\* the orders ORDER BY timestamp DESC may return the rows `idx` in: every
\* permutation that is non-increasing in the timestamp text (ties in any order)
OrderByTimestampDesc(rows, idx) ==
    {p \in [1..Cardinality(idx) -> idx] :
        /\ \A i, j \in 1..Cardinality(idx) : i # j => p[i] # p[j]
        /\ \A i \in 1..(Cardinality(idx) - 1) :
              ~TextLess(rows[p[i]].timestamp, rows[p[i + 1]].timestamp)}

\* LIMIT n: a negative n is no limit
SqlLimit(seq, n) ==
    IF n < 0 THEN seq ELSE SubSeq(seq, 1, Min(n, Len(seq)))

(***************************************************************************)
(* EventStorage                                                            *)
(***************************************************************************)
\* the row INSERT writes for an event (lines 114-126)
EventToRow(event) ==
    [timestamp |-> isoformat(event.timestamp),
     event_id |-> event.event_id,
     workflow_id |-> event.workflow_id,
     event_type |-> event.event_type,
     agent_name |-> event.agent_name,
     status |-> event.status,
     message |-> event.message,
     data |-> json_dumps(event.data),
     duration |-> SqlBind(event.duration),
     error |-> SqlBind(event.error),
     metadata |-> IF Truthy(event.metadata)
                  THEN <<"text", json_dumps(event.metadata)>> ELSE NULL]

\* a WorkflowEvent built without decoding the data column
RowToEventRaw(row) ==
    [timestamp |-> fromisoformat(row.timestamp),
     event_id |-> row.event_id,
     workflow_id |-> row.workflow_id,
     event_type |-> row.event_type,
     agent_name |-> row.agent_name,
     status |-> row.status,
     message |-> row.message,
     data |-> <<"str", row.data>>,
     duration |-> SqlFetch(row.duration),
     error |-> SqlFetch(row.error),
     metadata |-> IF row.metadata # NULL THEN json_loads(row.metadata[2]) ELSE None]

\* the WorkflowEvent built from a fetched row (lines 147-159)
RowToEvent(row) ==
    [timestamp |-> fromisoformat(row.timestamp),
     event_id |-> row.event_id,
     workflow_id |-> row.workflow_id,
     event_type |-> row.event_type,
     agent_name |-> row.agent_name,
     status |-> row.status,
     message |-> row.message,
     data |-> json_loads(row.data),
     duration |-> SqlFetch(row.duration),
     error |-> SqlFetch(row.error),
     metadata |-> IF row.metadata # NULL THEN json_loads(row.metadata[2]) ELSE None]

\* a table created without its PRIMARY KEY: a stored id is accepted again
StoreRaisesNoKey(tbl, event, ioOk) ==
    \/ ~Serializable(event.data)
    \/ Truthy(event.metadata) /\ ~Serializable(event.metadata)
    \/ ~ioOk

\* whether store_event raises: json.dumps' TypeError, the PRIMARY KEY's
\* IntegrityError, or an I/O failure of the database (ioOk = FALSE)
StoreRaises(tbl, event, ioOk) ==
    \/ ~Serializable(event.data)
    \/ Truthy(event.metadata) /\ ~Serializable(event.metadata)
    \/ ~ioOk
    \/ \E i \in 1..Len(tbl) : tbl[i].event_id = event.event_id

\* INSERT OR REPLACE: the row of a stored id is replaced by the new one
StoreEventReplacing(tbl, event, ioOk) ==
    IF StoreRaisesNoKey(tbl, event, ioOk)
    THEN [rows |-> tbl, raised |-> TRUE]
    ELSE [rows |-> Append(SelectSeq(tbl, LAMBDA r : r.event_id # event.event_id),
                          EventToRow(event)),
          raised |-> FALSE]

\* the table after store_event(event); the exception is re-raised (line 131)
store_event(tbl, event, ioOk) ==
    IF StoreRaises(tbl, event, ioOk)
    THEN [rows |-> tbl, raised |-> TRUE]
    ELSE [rows |-> Append(tbl, EventToRow(event)), raised |-> FALSE]

\* a SELECT without its WHERE clause
WhereAnyWorkflow(tbl, workflow_id) == 1..Len(tbl)

\* WHERE workflow_id = ?
WhereWorkflow(tbl, workflow_id) ==
    {i \in 1..Len(tbl) : tbl[i].workflow_id = workflow_id}

\* the query without its except clause: the caller gets the exception
GetEventsByWorkflowUncaught(tbl, workflow_id, limit, ioOk) ==
    IF ~ioOk THEN {<<"OperationalError">>}
    ELSE {[i \in 1..Len(SqlLimit(p, limit)) |-> RowToEvent(tbl[p[i]])] :
            p \in OrderByTimestampDesc(tbl, WhereWorkflow(tbl, workflow_id))}

\* the lists get_events_by_workflow may return; a failed read returns []
get_events_by_workflow(tbl, workflow_id, limit, ioOk) ==
    IF ~ioOk THEN {<<>>}
    ELSE {[i \in 1..Len(SqlLimit(p, limit)) |-> RowToEvent(tbl[p[i]])] :
            p \in OrderByTimestampDesc(tbl, WhereWorkflow(tbl, workflow_id))}

\* the lists get_recent_events may return
get_recent_events(tbl, limit, ioOk) ==
    IF ~ioOk THEN {<<>>}
    ELSE {[i \in 1..Len(SqlLimit(p, limit)) |-> RowToEvent(tbl[p[i]])] :
            p \in OrderByTimestampDesc(tbl, 1..Len(tbl))}

(***************************************************************************)
(* State                                                                   *)
(***************************************************************************)
VARIABLES
    clock,              \* the wall clock, in half seconds (time.time(), datetime.now())
    rows,               \* table workflow_events, in insertion order
    next_uuid,          \* the next value uuid.uuid4() returns
    generators,         \* the EventGenerator objects constructed so far, each
                        \* [workflow_id, event_handlers, start_times]
    active_generators,  \* EventManager.active_generators: workflow id -> generator
    accepted,           \* history: the events store_event has inserted, in order
    received,           \* the event ids the well-behaved handler was called with
    last,               \* the latest call: its arguments, outcome and return value
    started_at,         \* history: per generator and agent, the clock of the latest
                        \* agent_started call not yet followed by a completion (-1: none)
    credited,           \* history: per generator and agent, the later events given a
                        \* duration since the latest agent_started call
    registered,         \* history: per workflow id, the generator the latest
                        \* create_generator returned, 0 after remove_generator
    server,             \* the SSEServer the caller holds: "none", "direct"
                        \* (SSEServer(...)) or "factory" (create_sse_server())
    subscribers,        \* SSEServer.subscribers: the set of client ids
    event_queue,        \* SSEServer.event_queue: the envelopes not yet drained
    running,            \* SSEServer.running
    broadcast_thread,   \* SSEServer.broadcast_thread: "none", or the position of
                        \* the thread in _broadcast_loop ("testing", "draining"),
                        \* or "dead" once the loop has returned
    streams,            \* per connection to /events/stream, the position of its
                        \* generator, its client id and the messages it yielded
    ms,                 \* the latest reading of int(time.time() * 1000)
    drained,            \* history: the envelopes taken off the queue, each with
                        \* the subscriber set of that moment
    calls,              \* per thread calling an emitting method of generator 1
                        \* concurrently, its position in _create_event, the
                        \* duration it computed, and (history) the starts it
                        \* recorded and the events it gave a duration
    bcast,              \* an SSEServer whose start_broadcasting and
                        \* stop_broadcasting are called from several threads:
                        \* running, broadcast_thread (an index into loops, 0
                        \* for None), the position of every loop thread
                        \* started, and each caller's position
    mock                \* the MockSSEServer and its MockEventGenerator

\* the state of the SSE server
sseVars == <<server, subscribers, event_queue, running, broadcast_thread, streams,
             ms, drained>>

\* the state seen by concurrent callers
concVars == <<calls, bcast, mock>>

vars == <<clock, rows, next_uuid, generators, active_generators, accepted,
          received, last, started_at, credited, registered, sseVars, concVars>>

\* the connections to /events/stream the server may accept
Conns == {1, 2}

\* the threads that call one generator's emitting methods concurrently
Threads == {1, 2}

\* the request threads of the mock server (app.run(threaded=True))
Requests == {1, 2}

Workflows == {"W1", "W2"}

Agents == {"parser", "workflow_orchestrator"}

\* handlers a caller may register: one that returns, one that raises on every call
Handlers == {"ok_handler", "raising_handler"}

\* the data argument of an emitting call
EmitData == {None, <<"dict", << <<<<"str", "items">>, <<"int", 6>> >> >> >>}

\* a data argument json.dumps rejects: a dict holding a set
UnserializableData == <<"dict", << <<<<"str", "seen">>, <<"set", <<>> >> >> >> >>

\* the clock reading of the initial state: 09.0 s
StartTick == 18

EventGenerator(workflow_id) ==
    [workflow_id |-> workflow_id, event_handlers |-> <<>>, start_times |-> <<>>]

InitCommon ==
    /\ clock = StartTick
    /\ rows = <<>>
    /\ next_uuid = 1
    /\ active_generators = <<>>
    /\ accepted = <<>>
    /\ received = <<>>
    /\ last = [op |-> "init"]
    /\ started_at = [g \in 1..(MaxGenerators + 1) |-> [a \in Agents |-> -1]]
    /\ credited = [g \in 1..(MaxGenerators + 1) |-> [a \in Agents |-> 0]]
    /\ registered = [w \in Workflows |-> 0]
    /\ subscribers = {}
    /\ event_queue = <<>>
    /\ running = FALSE
    /\ broadcast_thread = "none"
    /\ streams = [c \in Conns |-> [pc |-> "new", client_id |-> -1, out |-> <<>>,
                                   beats |-> 0]]
    /\ ms = 0
    /\ drained = <<>>
    /\ calls = [t \in Threads |-> [duration |-> None, op |-> "none", pc |-> "idle",
                                   starts |-> 0, durations |-> 0]]
    /\ bcast = [running |-> FALSE, thread |-> 0, loops |-> <<>>,
                callers |-> [t \in Threads |->
                    [pc |-> "idle", overtaken |-> FALSE, after_stop |-> FALSE]],
                stop_begun |-> FALSE]
    /\ mock = [running |-> FALSE, event_count |-> 0, ids |-> {}, sims |-> <<>>,
               reqs |-> [r \in Requests |-> "idle"]]

\* time passes between two calls
Tick ==
    /\ clock < StartTick + MaxTicks
    /\ clock' = clock + 1
    /\ UNCHANGED <<rows, next_uuid, generators, active_generators, accepted,
                   received, last, started_at, credited, registered, sseVars,
                   concVars>>

(***************************************************************************)
(* EventGenerator                                                          *)
(***************************************************************************)
\* add_handler
AddHandler(g, h) ==
    /\ Len(generators[g].event_handlers) < MaxHandlers
    /\ generators' = [generators EXCEPT ![g].event_handlers = Append(@, h)]
    /\ last' = [op |-> "add_handler", gen |-> g, handler |-> h]
    /\ UNCHANGED <<clock, rows, next_uuid, active_generators, accepted, received,
                   started_at, credited, registered, sseVars, concVars>>

\* a duration computed whether or not a start is recorded (a missing start
\* read as "just now")
CreateDurationAlways(start_times, agent_name, now) ==
    IF DictHas(start_times, agent_name)
    THEN <<"float", now - DictGet(start_times, agent_name)>>
    ELSE <<"float", 0>>

\* the duration _create_event gives the event (lines 220-222)
CreateDuration(start_times, agent_name, now) ==
    IF DictHas(start_times, agent_name)
    THEN <<"float", now - DictGet(start_times, agent_name)>>
    ELSE None

\* _create_event without line 223: a start time that was read stays recorded
CreateStartTimesKept(start_times, agent_name) == start_times

\* the start-time table _create_event leaves (line 223)
CreateStartTimes(start_times, agent_name) ==
    IF DictHas(start_times, agent_name)
    THEN DictDel(start_times, agent_name)
    ELSE start_times

\* _create_event: the event and the start-time table it leaves
_create_event(gen, uuid, now, event_type, agent_name, status, message, data, error) ==
    [event |->
        [timestamp |-> datetime_at(now),
         event_id |-> uuid,
         workflow_id |-> gen.workflow_id,
         event_type |-> event_type,
         agent_name |-> agent_name,
         status |-> status,
         message |-> message,
         data |-> IF Truthy(data) THEN data ELSE EmptyDict,
         duration |-> CreateDuration(gen.start_times, agent_name, now),
         error |-> error,
         metadata |-> None],
     start_times |-> CreateStartTimes(gen.start_times, agent_name)]

HandlerRaises(h) == h = "raising_handler"

(***************************************************************************)
(* SSEServer.broadcast_event (sse_server.py), the body of the handler      *)
(* create_sse_server defines                                               *)
(***************************************************************************)
\* WorkflowEvent.to_dict: the timestamp as its ISO text
to_dict(event) == [event EXCEPT !.timestamp = isoformat(@)]

\* the envelope broadcast_event builds (lines 531-535)
Envelope(event, now) ==
    [timestamp |-> isoformat(datetime_at(now)), event |-> to_dict(event),
     type |-> "workflow_event"]

\* the maxsize of Queue(): 0, no bound
QueueMaxsize == 0

\* Queue.put(item) waits while a bounded queue is full
QueuePutBlocks(queue, maxsize) == maxsize > 0 /\ Len(queue) >= maxsize

\* broadcast_event over a queue built as Queue(maxsize=1)
BroadcastEventBounded(queue, subs, event, now) ==
    IF subs = {} THEN [queue |-> queue, blocked |-> FALSE]
    ELSE IF QueuePutBlocks(queue, 1) THEN [queue |-> queue, blocked |-> TRUE]
    ELSE [queue |-> Append(queue, Envelope(event, now)), blocked |-> FALSE]

\* broadcast_event (lines 527-539): nothing without subscribers, else the
\* envelope is put on the queue; `blocked` says whether the put has to wait
broadcast_event(queue, subs, event, now) ==
    IF subs = {} THEN [queue |-> queue, blocked |-> FALSE]
    ELSE IF QueuePutBlocks(queue, QueueMaxsize) THEN [queue |-> queue, blocked |-> TRUE]
    ELSE [queue |-> Append(queue, Envelope(event, now)), blocked |-> FALSE]

\* the queue after the handlers called by an emit have run: broadcast_handler
\* (lines 600-601) calls server.broadcast_event(event)
RECURSIVE BroadcastHandled(_, _, _, _, _)
BroadcastHandled(queue, subs, invoked, event, now) ==
    IF invoked = <<>> THEN queue
    ELSE BroadcastHandled(
            IF Head(invoked) = "broadcast_handler"
            THEN broadcast_event(queue, subs, event, now).queue ELSE queue,
            subs, Tail(invoked), event, now)

\* the handler loop without its try/except: the first exception ends the loop
RECURSIVE NotifyHandlersUncaught(_)
NotifyHandlersUncaught(handlers) ==
    IF handlers = <<>> THEN [raised |-> FALSE, invoked |-> <<>>]
    ELSE IF HandlerRaises(Head(handlers))
    THEN [raised |-> TRUE, invoked |-> <<Head(handlers)>>]
    ELSE LET rest == NotifyHandlersUncaught(Tail(handlers))
         IN  [raised |-> rest.raised, invoked |-> <<Head(handlers)>> \o rest.invoked]

\* the handler loop of _emit_event (lines 249-253): the handlers are called in
\* registration order; an exception of one is caught and logged, and the loop
\* goes on
RECURSIVE NotifyHandlers(_)
NotifyHandlers(handlers) ==
    IF handlers = <<>> THEN [raised |-> FALSE, invoked |-> <<>>]
    ELSE LET rest == NotifyHandlers(Tail(handlers))
         IN  [raised |-> rest.raised, invoked |-> <<Head(handlers)>> \o rest.invoked]

\* _emit_event without its outer try/except
EmitEventUncaught(tbl, handlers, event, ioOk) ==
    LET st == store_event(tbl, event, ioOk)
        hl == IF st.raised THEN [raised |-> FALSE, invoked |-> <<>>]
              ELSE NotifyHandlers(handlers)
    IN  [rows |-> st.rows, raised |-> st.raised \/ hl.raised, invoked |-> hl.invoked,
         store_raised |-> st.raised]

\* _emit_event with the store write handed to a background writer: the call
\* returns, and the handlers run, before the row is in the table
EmitEventDeferredWrite(tbl, handlers, event, ioOk) ==
    LET hl == NotifyHandlers(handlers)
    IN  [rows |-> tbl, raised |-> FALSE, invoked |-> hl.invoked,
         store_raised |-> FALSE]

\* _emit_event with the store write in a try of its own: the handlers are
\* called whether or not the event was stored
EmitEventHandlersAlways(tbl, handlers, event, ioOk) ==
    LET st == store_event(tbl, event, ioOk)
        hl == NotifyHandlers(handlers)
    IN  [rows |-> st.rows, raised |-> FALSE, invoked |-> hl.invoked,
         store_raised |-> st.raised]

\* _emit_event: the table, the handlers called, whether the store write raised,
\* and whether the call raises: the store write comes first and its exception
\* skips the handlers; `except Exception` (lines 256-257) catches and logs
\* whatever the body raises
_emit_event(tbl, handlers, event, ioOk) ==
    LET st == store_event(tbl, event, ioOk)
        hl == IF st.raised THEN [raised |-> FALSE, invoked |-> <<>>]
              ELSE NotifyHandlers(handlers)
    IN  [rows |-> st.rows, raised |-> FALSE, invoked |-> hl.invoked,
         store_raised |-> st.raised]

\* `data or {}` of the emitting methods
OrEmpty(data) == IF Truthy(data) THEN data ELSE EmptyDict

workflow_started(gen, uuid, now, data) ==
    _create_event(gen, uuid, now, "workflow_started", "workflow_orchestrator",
                  "info", <<"Workflow execution started">>, OrEmpty(data), None)

workflow_completed(gen, uuid, now, data) ==
    _create_event(gen, uuid, now, "workflow_completed", "workflow_orchestrator",
                  "success", <<"Workflow execution completed">>, OrEmpty(data), None)

workflow_error(gen, uuid, now, error, data) ==
    _create_event(gen, uuid, now, "workflow_error", "workflow_orchestrator",
                  "error", <<"Workflow execution failed">>, OrEmpty(data),
                  <<"str", error>>)

\* agent_started records the start time (line 295) and then creates its event
agent_started(gen, uuid, now, agent_name, data) ==
    _create_event([gen EXCEPT !.start_times = DictSet(@, agent_name, now)],
                  uuid, now, "agent_started", agent_name, "progress",
                  <<agent_name, " processing started">>, OrEmpty(data), None)

agent_completed(gen, uuid, now, agent_name, data) ==
    _create_event(gen, uuid, now, "agent_completed", agent_name, "success",
                  <<agent_name, " processing completed">>, OrEmpty(data), None)

agent_error(gen, uuid, now, agent_name, error, data) ==
    _create_event(gen, uuid, now, "agent_error", agent_name, "error",
                  <<agent_name, " processing failed">>, OrEmpty(data),
                  <<"str", error>>)

performance_metric(gen, uuid, now, agent_name, metric_name, value, unit) ==
    _create_event(gen, uuid, now, "performance_metric", agent_name, "info",
                  <<"Performance metric: ", metric_name, " = ", value, unit>>,
                  <<"dict", << << <<"str", "metric_name">>, <<"str", metric_name>> >>,
                               << <<"str", "value">>, <<"float", value>> >>,
                               << <<"str", "unit">>, <<"str", unit>> >> >> >>,
                  None)

progress_update(gen, uuid, now, agent_name, progress) ==
    _create_event(gen, uuid, now, "progress_update", agent_name, "progress",
                  <<"Progress: ", progress, "%">>,
                  <<"dict", << << <<"str", "progress">>, <<"float", progress>> >> >> >>,
                  None)

status_update(gen, uuid, now, agent_name, status, message, data) ==
    _create_event(gen, uuid, now, "status_update", agent_name, status,
                  <<message>>, OrEmpty(data), None)

\* the events after the latest agent_started of the agent that carry a duration
Credit(g, op, agent_name, event) ==
    IF op = "agent_started"
    THEN [credited EXCEPT ![g][agent_name] = 0]
    ELSE IF event.duration # None
    THEN [credited EXCEPT ![g][agent_name] = @ + 1]
    ELSE credited

\* an emitting call of generator g: the event is created, then emitted
Emit(g, op, agent_name, created, ioOk) ==
    LET gen == generators[g]
        em == _emit_event(rows, gen.event_handlers, created.event, ioOk)
    IN  /\ next_uuid <= MaxEvents
        /\ next_uuid' = next_uuid + 1
        /\ generators' = [generators EXCEPT ![g].start_times = created.start_times]
        /\ rows' = em.rows
        /\ accepted' = IF em.store_raised THEN accepted
                       ELSE Append(accepted, created.event)
        /\ received' = received \o
              [i \in 1..Len(SelectSeq(em.invoked, LAMBDA h : ~HandlerRaises(h)))
                  |-> created.event.event_id]
        /\ last' = [event |-> created.event,
                    agent_name |-> agent_name,
                    raised |-> em.raised,
                    op |-> op,
                    gen |-> g,
                    now |-> clock,
                    invoked |-> em.invoked,
                    handlers |-> gen.event_handlers,
                    store_raised |-> em.store_raised,
                    had_start |-> DictHas(gen.start_times, agent_name),
                    started_call |-> started_at[g][agent_name]]
        /\ started_at' =
              IF op = "agent_started"
              THEN [started_at EXCEPT ![g][agent_name] = clock]
              ELSE IF op \in {"agent_completed", "agent_error"}
              THEN [started_at EXCEPT ![g][agent_name] = -1]
              ELSE started_at
        /\ credited' = Credit(g, op, agent_name, created.event)
        /\ event_queue' = BroadcastHandled(event_queue, subscribers, em.invoked,
                                          created.event, clock)
        /\ UNCHANGED <<clock, active_generators, registered, server, subscribers,
                       running, broadcast_thread, streams, ms, drained,
                       concVars>>

WorkflowStarted(g, data, ioOk) ==
    Emit(g, "workflow_started", "workflow_orchestrator",
         workflow_started(generators[g], next_uuid, clock, data), ioOk)

WorkflowCompleted(g, data, ioOk) ==
    Emit(g, "workflow_completed", "workflow_orchestrator",
         workflow_completed(generators[g], next_uuid, clock, data), ioOk)

WorkflowError(g, data, ioOk) ==
    Emit(g, "workflow_error", "workflow_orchestrator",
         workflow_error(generators[g], next_uuid, clock, "boom", data), ioOk)

AgentStarted(g, a, data, ioOk) ==
    Emit(g, "agent_started", a,
         agent_started(generators[g], next_uuid, clock, a, data), ioOk)

AgentCompleted(g, a, data, ioOk) ==
    Emit(g, "agent_completed", a,
         agent_completed(generators[g], next_uuid, clock, a, data), ioOk)

AgentError(g, a, data, ioOk) ==
    Emit(g, "agent_error", a,
         agent_error(generators[g], next_uuid, clock, a, "boom", data), ioOk)

PerformanceMetric(g, a, ioOk) ==
    Emit(g, "performance_metric", a,
         performance_metric(generators[g], next_uuid, clock, a, "latency", 3, "ms"),
         ioOk)

ProgressUpdate(g, a, ioOk) ==
    Emit(g, "progress_update", a,
         progress_update(generators[g], next_uuid, clock, a, 100), ioOk)

StatusUpdate(g, a, data, ioOk) ==
    Emit(g, "status_update", a,
         status_update(generators[g], next_uuid, clock, a, "warning", "check", data),
         ioOk)

\* one generator, constructed over the store, and its callers
InitGen ==
    /\ InitCommon
    /\ generators = <<EventGenerator("W1")>>
    /\ server = "none"

\* the generator's callers over a working store, with time passing between calls
NextTiming ==
    \/ Tick
    \/ \E d \in EmitData : WorkflowStarted(1, d, TRUE)
    \/ WorkflowCompleted(1, None, TRUE)
    \/ WorkflowError(1, None, TRUE)
    \/ \E a \in Agents : AgentStarted(1, a, None, TRUE)
    \/ \E a \in Agents, d \in EmitData : AgentCompleted(1, a, d, TRUE)
    \/ \E a \in Agents : AgentError(1, a, None, TRUE)
    \/ \E a \in Agents : PerformanceMetric(1, a, TRUE)
    \/ \E a \in Agents : ProgressUpdate(1, a, TRUE)
    \/ \E a \in Agents : StatusUpdate(1, a, None, TRUE)

SpecTiming == InitGen /\ [][NextTiming]_vars

(***************************************************************************)
(* The store called directly, and the history endpoint                     *)
(***************************************************************************)
\* EventStorage.store_event called with an event of the caller's making
StoreEvent(event, ioOk) ==
    LET st == store_event(rows, event, ioOk)
    IN  /\ Len(rows) < MaxRows
        /\ rows' = st.rows
        /\ accepted' = IF st.raised THEN accepted ELSE Append(accepted, event)
        /\ last' = [event |-> event, ioOk |-> ioOk, raised |-> st.raised,
                    op |-> "store_event"]
        /\ UNCHANGED <<clock, next_uuid, generators, active_generators, received,
                       started_at, credited, registered, sseVars, concVars>>

\* GET /events/history (sse_server.py, lines 56-67): with a workflow_id the
\* events of that workflow (EventManager.get_workflow_events), without one the
\* recent events (EventManager.get_recent_events); the limit is passed on as is
get_event_history(tbl, workflow_id, limit, ioOk) ==
    IF workflow_id # ""
    THEN get_events_by_workflow(tbl, workflow_id, limit, ioOk)
    ELSE get_recent_events(tbl, limit, ioOk)

GetEventHistory(workflow_id, limit, ioOk) ==
    /\ \E ret \in get_event_history(rows, workflow_id, limit, ioOk) :
          last' = [workflow_id |-> workflow_id, ioOk |-> ioOk,
                   limit |-> limit, op |-> "get_event_history", ret |-> ret]
    /\ UNCHANGED <<clock, rows, next_uuid, generators, active_generators, accepted,
                   received, started_at, credited, registered, sseVars,
                   concVars>>

\* an event as a caller of store_event builds it
MakeEvent(id, workflow_id, tick, payload) ==
    [timestamp |-> datetime_at(tick),
     event_id |-> id,
     workflow_id |-> workflow_id,
     event_type |-> "status_update",
     agent_name |-> "parser",
     status |-> "info",
     message |-> <<"check">>,
     data |-> payload.data,
     duration |-> payload.duration,
     error |-> payload.error,
     metadata |-> payload.metadata]

PlainPayload ==
    [data |-> EmptyDict, duration |-> None, error |-> None, metadata |-> None]

\* timestamps 09.0 s, 09.5 s and 10.0 s: "09", "09.500000" and "10"
StoreTicks == {18, 19, 20}

\* the limits a request may carry
Limits == {-1, 0, 1, 50}

\* the workflow_id of a request: none, a stored workflow, an unknown one
RequestWorkflows == {"", "W1", "W2", "W9"}

InitStore ==
    /\ InitCommon
    /\ generators = <<>>
    /\ server = "none"

NextStore ==
    \/ \E id \in 1..MaxRows, w \in Workflows, t \in StoreTicks, ok \in BOOLEAN :
          StoreEvent(MakeEvent(id, w, t, PlainPayload), ok)
    \/ \E w \in RequestWorkflows, n \in Limits, ok \in BOOLEAN :
          GetEventHistory(w, n, ok)

SpecStore == InitStore /\ [][NextStore]_vars

\* the generator's callers with handlers registered and a store that may fail;
\* another writer may have stored an event under the id uuid4 returns next
NextEmit ==
    \/ \E h \in Handlers : AddHandler(1, h)
    \/ \E ok \in BOOLEAN : WorkflowStarted(1, None, ok)
    \/ \E ok \in BOOLEAN : WorkflowCompleted(1, None, ok)
    \/ \E ok \in BOOLEAN : WorkflowError(1, None, ok)
    \/ \E ok \in BOOLEAN : AgentStarted(1, "parser", None, ok)
    \/ \E d \in {None, UnserializableData}, ok \in BOOLEAN :
          AgentCompleted(1, "parser", d, ok)
    \/ \E ok \in BOOLEAN : AgentError(1, "parser", None, ok)
    \/ \E ok \in BOOLEAN : PerformanceMetric(1, "parser", ok)
    \/ \E ok \in BOOLEAN : ProgressUpdate(1, "parser", ok)
    \/ \E ok \in BOOLEAN : StatusUpdate(1, "parser", None, ok)
    \/ StoreEvent(MakeEvent(next_uuid, "W1", clock, PlainPayload), TRUE)

SpecEmit == InitGen /\ [][NextEmit]_vars

(***************************************************************************)
(* Payloads for the round trip through the store                           *)
(***************************************************************************)
Str(x) == <<"str", x>>

\* {"name": "spec.xlsx", "ok": True, "ratio": 1.5, "tags": ["a", 2, [False]],
\*  "nested": {"k": "v", "n": []}}
NestedData ==
    <<"dict", << <<Str("name"), Str("spec.xlsx")>>,
                 <<Str("ok"), <<"bool", TRUE>> >>,
                 <<Str("ratio"), <<"float", 3>> >>,
                 <<Str("tags"), <<"list", <<Str("a"), <<"int", 2>>,
                                            <<"list", << <<"bool", FALSE>> >> >> >> >> >>,
                 <<Str("nested"), <<"dict", << <<Str("k"), Str("v")>>,
                                               <<Str("n"), <<"list", <<>> >> >> >> >> >> >> >>

\* {"pair": ("a", 2)}
TupleData == <<"dict", << <<Str("pair"), <<"tuple", <<Str("a"), <<"int", 2>> >> >> >> >> >>

\* {1: "x"}
IntKeyData == <<"dict", << << <<"int", 1>>, Str("x")>> >> >>

Payloads ==
    {PlainPayload,
     [data |-> <<"dict", << <<Str("items"), <<"int", 6>> >> >> >>,
      duration |-> <<"float", 3>>, error |-> None, metadata |-> EmptyDict],
     [data |-> NestedData, duration |-> None, error |-> Str("boom"),
      metadata |-> <<"dict", << <<Str("source"), Str("test")>> >> >>],
     [data |-> TupleData, duration |-> None, error |-> None, metadata |-> None],
     [data |-> IntKeyData, duration |-> None, error |-> None, metadata |-> None],
     [data |-> UnserializableData, duration |-> None, error |-> None,
      metadata |-> None]}

NextRoundTrip ==
    \/ \E id \in 1..MaxRows, p \in Payloads, ok \in BOOLEAN :
          StoreEvent(MakeEvent(id, "W1", 19, p), ok)
    \/ \E w \in {"", "W1"}, n \in {1, 50} : GetEventHistory(w, n, TRUE)

SpecRoundTrip == InitStore /\ [][NextRoundTrip]_vars

(***************************************************************************)
(* EventManager                                                            *)
(***************************************************************************)
\* a registration that keeps an entry already present (dict.setdefault)
CreateKeepsFirst(active, workflow_id, g) ==
    IF DictHas(active, workflow_id) THEN active ELSE Append(active, <<workflow_id, g>>)

\* active_generators after create_generator registers generator g (line 377)
create_generator(active, workflow_id, g) == DictSet(active, workflow_id, g)

\* get_generator: the registered generator, 0 for None (dict.get)
get_generator(active, workflow_id) ==
    IF DictHas(active, workflow_id) THEN DictGet(active, workflow_id) ELSE 0

\* active_generators after remove_generator (lines 386-387)
remove_generator(active, workflow_id) ==
    IF DictHas(active, workflow_id) THEN DictDel(active, workflow_id) ELSE active

get_active_workflows(active) == DictKeys(active)

CreateGenerator(w) ==
    /\ Len(generators) < MaxGenerators
    /\ generators' = Append(generators, EventGenerator(w))
    /\ active_generators' = create_generator(active_generators, w, Len(generators) + 1)
    /\ registered' = [registered EXCEPT ![w] = Len(generators) + 1]
    /\ last' = [workflow_id |-> w, op |-> "create_generator",
                ret |-> Len(generators) + 1, before |-> active_generators]
    /\ UNCHANGED <<clock, rows, next_uuid, accepted, received, started_at, credited, sseVars,
                   concVars>>

GetGenerator(w) ==
    /\ last' = [workflow_id |-> w, op |-> "get_generator",
                ret |-> get_generator(active_generators, w),
                before |-> active_generators]
    /\ UNCHANGED <<clock, rows, next_uuid, generators, active_generators, accepted,
                   received, started_at, credited, registered, sseVars,
                   concVars>>

RemoveGenerator(w) ==
    /\ active_generators' = remove_generator(active_generators, w)
    /\ registered' = [registered EXCEPT ![w] = 0]
    /\ last' = [workflow_id |-> w, op |-> "remove_generator",
                ret |-> None, before |-> active_generators]
    /\ UNCHANGED <<clock, rows, next_uuid, generators, accepted, received,
                   started_at, credited, sseVars, concVars>>

GetActiveWorkflows ==
    /\ last' = [workflow_id |-> "", op |-> "get_active_workflows",
                ret |-> get_active_workflows(active_generators),
                before |-> active_generators]
    /\ UNCHANGED <<clock, rows, next_uuid, generators, active_generators, accepted,
                   received, started_at, credited, registered, sseVars,
                   concVars>>

NextManager ==
    \/ \E w \in Workflows : CreateGenerator(w)
    \/ \E w \in Workflows : GetGenerator(w)
    \/ \E w \in Workflows : RemoveGenerator(w)
    \/ GetActiveWorkflows

SpecManager == InitStore /\ [][NextManager]_vars

\* the store and the registry used side by side: writers, both queries and
\* the registry calls of one EventManager
NextLog ==
    \/ \E id \in 1..MaxRows, w \in Workflows, ok \in BOOLEAN :
          StoreEvent(MakeEvent(id, w, clock, PlainPayload), ok)
    \/ \E w \in {"", "W1"}, ok \in BOOLEAN : GetEventHistory(w, 50, ok)
    \/ CreateGenerator("W1")
    \/ GetGenerator("W1")
    \/ RemoveGenerator("W1")

SpecLog == InitStore /\ [][NextLog]_vars

(***************************************************************************)
(* SSEServer (sse_server.py): the streaming endpoint, the producer's       *)
(* broadcast_event and the broadcasting thread                             *)
(***************************************************************************)
ConnectionMsg(client_id, now) ==
    [timestamp |-> isoformat(datetime_at(now)), client_id |-> client_id,
     type |-> "connection"]

HeartbeatMsg(now) == [timestamp |-> isoformat(datetime_at(now)), type |-> "heartbeat"]

\* the first resumption of generate() (lines 97-103): the client id is made of
\* the clock's milliseconds and added to the subscribers, and the connection
\* message is yielded
stream_open(st, subs, now_ms, now) ==
    [subs |-> subs \cup {now_ms},
     st |-> [pc |-> "connected", client_id |-> now_ms,
             out |-> <<ConnectionMsg(now_ms, now)>>, beats |-> 0]]

\* a stream whose loop yields the connection message on every round
StreamResumeGreeting(st, subs, now) ==
    IF st.client_id \in subs
    THEN [subs |-> subs,
          st |-> [st EXCEPT !.pc = "heartbeat",
                            !.out = Append(@, ConnectionMsg(st.client_id, now)),
                            !.beats = @ + 1]]
    ELSE [subs |-> subs, st |-> [st EXCEPT !.pc = "closed"]]

\* a later resumption (after the sleep of line 110, or the first entry of the
\* loop): while the client id is a subscriber a heartbeat is yielded (lines
\* 106-109); otherwise the loop and the generator end, the finally block
\* finding nothing to remove
stream_resume(st, subs, now) ==
    IF st.client_id \in subs
    THEN [subs |-> subs,
          st |-> [st EXCEPT !.pc = "heartbeat",
                            !.out = Append(@, HeartbeatMsg(now)),
                            !.beats = @ + 1]]
    ELSE [subs |-> subs, st |-> [st EXCEPT !.pc = "closed"]]

\* a stream that ends without its finally block
StreamEndLeaking(st, subs) == [subs |-> subs, st |-> [st EXCEPT !.pc = "closed"]]

\* the end of a stream, by GeneratorExit at a yield (lines 115-116) or by an
\* exception inside the loop (lines 111-113): the finally block removes the
\* client id (lines 117-120)
stream_end(st, subs) ==
    [subs |-> subs \ {st.client_id}, st |-> [st EXCEPT !.pc = "closed"]]

\* _send_to_subscribers (lines 572-576) logs the envelope: no stream is given it
_send_to_subscribers(strs, subs, env) == strs

\* the server iterates the response: the generator runs to its next yield
StreamNext(c) ==
    /\ server # "none"
    /\ streams[c].pc # "closed"
    /\ streams[c].beats < MaxBeats
    /\ \E now_ms \in {ms, ms + 1} :
          LET r == IF streams[c].pc = "new"
                   THEN stream_open(streams[c], subscribers, now_ms, clock)
                   ELSE stream_resume(streams[c], subscribers, clock)
          IN  /\ ms' = IF streams[c].pc = "new" THEN now_ms ELSE ms
              /\ streams' = [streams EXCEPT ![c] = r.st]
              /\ subscribers' = r.subs
    /\ last' = [op |-> "stream_next", conn |-> c]
    /\ UNCHANGED <<clock, rows, next_uuid, generators, active_generators, accepted,
                   received, started_at, credited, registered, server, event_queue,
                   running, broadcast_thread, drained, concVars>>

\* the client goes away: the server closes the generator, GeneratorExit is
\* raised at the yield the generator is suspended at
StreamClose(c) ==
    /\ streams[c].pc \in {"connected", "heartbeat"}
    /\ LET r == stream_end(streams[c], subscribers)
       IN  streams' = [streams EXCEPT ![c] = r.st] /\ subscribers' = r.subs
    /\ last' = [op |-> "stream_close", conn |-> c]
    /\ UNCHANGED <<clock, rows, next_uuid, generators, active_generators, accepted,
                   received, started_at, credited, registered, server, event_queue,
                   running, broadcast_thread, ms, drained, concVars>>

\* an exception inside the loop's try block: in the sleep of line 110, or in
\* line 109 once the loop is entered
StreamError(c) ==
    /\ \/ streams[c].pc = "heartbeat"
       \/ streams[c].pc = "connected" /\ streams[c].client_id \in subscribers
    /\ LET r == stream_end(streams[c], subscribers)
       IN  streams' = [streams EXCEPT ![c] = r.st] /\ subscribers' = r.subs
    /\ last' = [op |-> "stream_error", conn |-> c]
    /\ UNCHANGED <<clock, rows, next_uuid, generators, active_generators, accepted,
                   received, started_at, credited, registered, server, event_queue,
                   running, broadcast_thread, ms, drained, concVars>>

\* the producer calls server.broadcast_event(event)
BroadcastEvent ==
    LET event == MakeEvent(next_uuid, "W1", clock, PlainPayload)
        r == broadcast_event(event_queue, subscribers, event, clock)
    IN  /\ server # "none"
        /\ next_uuid <= MaxEvents
        /\ next_uuid' = next_uuid + 1
        /\ event_queue' = r.queue
        /\ last' = [event |-> event, op |-> "broadcast_event",
                    blocked |-> r.blocked, queued |-> Len(event_queue)]
        /\ UNCHANGED <<clock, rows, generators, active_generators, accepted,
                       received, started_at, credited, registered, server,
                       subscribers, running, broadcast_thread, streams, ms, drained,
                       concVars>>

\* start_broadcasting (lines 541-549)
StartBroadcasting ==
    /\ server # "none"
    /\ IF broadcast_thread \in {"testing", "draining"}
       THEN UNCHANGED <<running, broadcast_thread>>
       ELSE running' = TRUE /\ broadcast_thread' = "testing"
    /\ last' = [op |-> "start_broadcasting"]
    /\ UNCHANGED <<clock, rows, next_uuid, generators, active_generators, accepted,
                   received, started_at, credited, registered, server, subscribers,
                   event_queue, streams, ms, drained, concVars>>

\* stop_broadcasting (lines 551-556): the flag is cleared; join(timeout=5)
\* returns whether or not the thread has ended
StopBroadcasting ==
    /\ server # "none"
    /\ running' = FALSE
    /\ last' = [op |-> "stop_broadcasting"]
    /\ UNCHANGED <<clock, rows, next_uuid, generators, active_generators, accepted,
                   received, started_at, credited, registered, server, subscribers,
                   event_queue, broadcast_thread, streams, ms, drained,
                   concVars>>

\* _broadcast_loop, `while self.running` (line 560)
LoopTest ==
    /\ broadcast_thread = "testing"
    /\ broadcast_thread' = IF running THEN "draining" ELSE "dead"
    /\ last' = [op |-> "loop_test"]
    /\ UNCHANGED <<clock, rows, next_uuid, generators, active_generators, accepted,
                   received, started_at, credited, registered, server, subscribers,
                   event_queue, running, streams, ms, drained, concVars>>

\* the inner loop taking the newest envelope instead of the oldest (a LIFO queue)
LoopDrainNewest ==
    /\ broadcast_thread = "draining"
    /\ event_queue # <<>>
    /\ event_queue' = SubSeq(event_queue, 1, Len(event_queue) - 1)
    /\ streams' = _send_to_subscribers(streams, subscribers,
                                       event_queue[Len(event_queue)])
    /\ drained' = Append(drained, [subs |-> subscribers,
                                   env |-> event_queue[Len(event_queue)]])
    /\ last' = [op |-> "loop_drain"]
    /\ UNCHANGED <<clock, rows, next_uuid, generators, active_generators, accepted,
                   received, started_at, credited, registered, server, subscribers,
                   running, broadcast_thread, ms, concVars>>

\* _broadcast_loop, one round of the inner loop (lines 563-565): the head of
\* the queue is taken and handed to _send_to_subscribers
LoopDrain ==
    /\ broadcast_thread = "draining"
    /\ event_queue # <<>>
    /\ event_queue' = Tail(event_queue)
    /\ streams' = _send_to_subscribers(streams, subscribers, Head(event_queue))
    /\ drained' = Append(drained, [subs |-> subscribers, env |-> Head(event_queue)])
    /\ last' = [op |-> "loop_drain"]
    /\ UNCHANGED <<clock, rows, next_uuid, generators, active_generators, accepted,
                   received, started_at, credited, registered, server, subscribers,
                   running, broadcast_thread, ms, concVars>>

\* _broadcast_loop, the queue found empty: sleep(0.1), back to the test
LoopSleep ==
    /\ broadcast_thread = "draining"
    /\ event_queue = <<>>
    /\ broadcast_thread' = "testing"
    /\ last' = [op |-> "loop_sleep"]
    /\ UNCHANGED <<clock, rows, next_uuid, generators, active_generators, accepted,
                   received, started_at, credited, registered, server, subscribers,
                   event_queue, running, streams, ms, drained, concVars>>

\* a server constructed by SSEServer(host, port) (lines 25-41)
InitSse ==
    /\ InitCommon
    /\ generators = <<>>
    /\ server = "direct"

NextSse ==
    \/ \E c \in Conns : StreamNext(c)
    \/ \E c \in Conns : StreamClose(c)
    \/ \E c \in Conns : StreamError(c)
    \/ BroadcastEvent
    \/ StartBroadcasting
    \/ StopBroadcasting
    \/ LoopTest
    \/ LoopDrain
    \/ LoopSleep

SpecSse == InitSse /\ [][NextSse]_vars

\* one listener, the producer and the broadcast thread; the thread is
\* scheduled again and again (its test, its get_nowait and its sleep each
\* complete), while callers may start and stop it at any time
NextDrain ==
    \/ StreamNext(1)
    \/ BroadcastEvent
    \/ StartBroadcasting
    \/ StopBroadcasting
    \/ LoopTest
    \/ LoopDrain
    \/ LoopSleep

SpecDrain ==
    /\ InitSse
    /\ [][NextDrain]_vars
    /\ WF_vars(LoopTest)
    /\ WF_vars(LoopDrain)
    /\ WF_vars(LoopSleep)

\* the attributes an EventStorage object has (workflow_events.py, lines 69-71)
StorageAttributes == {"db_path"}

\* create_sse_server (lines 595-606): the server is constructed, then
\* broadcast_handler is appended to event_manager.storage.event_handlers; the
\* lookup of an attribute the storage does not have raises AttributeError and
\* the function returns no server
create_sse_server(attrs) ==
    IF "event_handlers" \in attrs
    THEN [raised |-> FALSE, server |-> "factory"]
    ELSE [raised |-> TRUE, server |-> "none"]

CreateSseServer ==
    LET r == create_sse_server(StorageAttributes)
    IN  /\ server = "none"
        /\ server' = r.server
        /\ last' = [raised |-> r.raised, op |-> "create_sse_server"]
        /\ UNCHANGED <<clock, rows, next_uuid, generators, active_generators,
                       accepted, received, started_at, credited, registered,
                       subscribers, event_queue, running, broadcast_thread,
                       streams, ms, drained, concVars>>

\* SSEServer(host, port) called directly (lines 25-41)
NewSSEServer ==
    /\ server = "none"
    /\ server' = "direct"
    /\ last' = [op |-> "SSEServer"]
    /\ UNCHANGED <<clock, rows, next_uuid, generators, active_generators, accepted,
                   received, started_at, credited, registered, subscribers,
                   event_queue, running, broadcast_thread, streams, ms, drained,
                   concVars>>

\* a server, its listeners, and the generators of the global event_manager
NextWire ==
    \/ CreateSseServer
    \/ NewSSEServer
    \/ StreamNext(1)
    \/ StreamClose(1)
    \/ CreateGenerator("W1")
    \/ \E g \in 1..Len(generators) : WorkflowStarted(g, None, TRUE)
    \/ \E g \in 1..Len(generators) : ProgressUpdate(g, "parser", TRUE)

SpecWire == InitStore /\ [][NextWire]_vars

(***************************************************************************)
(* QuoteCalculatorAgent (quote_calculator_agent.py).  A description is the *)
(* sequence of its whitespace-separated words; prices and quantities are   *)
(* whole numbers.                                                          *)
(***************************************************************************)
\* str.lower() of a word
Lower(w) == CASE w = "A" -> "a" [] w = "B" -> "b" [] OTHER -> w

\* set(desc.lower().split())
WordSet(desc) == {Lower(desc[i]) : i \in 1..Len(desc)}

\* _similarity_match (lines 150-166), threshold 0.6: overlap / union >= 0.6,
\* computed as 5 * overlap >= 3 * union
_similarity_match(desc1, desc2) ==
    IF desc1 = <<>> \/ desc2 = <<>> THEN FALSE
    ELSE LET overlap == Cardinality(WordSet(desc1) \cap WordSet(desc2))
             union == Cardinality(WordSet(desc1) \cup WordSet(desc2))
         IN  5 * overlap >= 3 * union

\* the condition of line 119
OfferMatches(position, description, item) ==
    \/ position # "" /\ item.position = position
    \/ description # <<>> /\ _similarity_match(description, item.description)

\* the list `prices` of lines 115-122 over the items i.. of one response
RECURSIVE ItemPrices(_, _, _, _, _)
ItemPrices(position, description, items, supplier_name, i) ==
    IF i > Len(items) THEN <<>>
    ELSE (IF OfferMatches(position, description, items[i]) /\ items[i].unit_price > 0
          THEN << <<items[i].unit_price, supplier_name>> >> ELSE <<>>)
         \o ItemPrices(position, description, items, supplier_name, i + 1)

\* the list `prices` over the responses r..
RECURSIVE ResponsePrices(_, _, _, _)
ResponsePrices(position, description, responses, r) ==
    IF r > Len(responses) THEN <<>>
    ELSE ItemPrices(position, description, responses[r].items,
                    responses[r].supplier_name, 1)
         \o ResponsePrices(position, description, responses, r + 1)

\* a selection that keeps the last of the cheapest offers
MinLast(prices) ==
    LET k == CHOOSE k \in 1..Len(prices) :
                 /\ \A j \in 1..Len(prices) : prices[k][1] <= prices[j][1]
                 /\ \A j \in (k + 1)..Len(prices) : prices[j][1] > prices[k][1]
    IN  prices[k]

\* min(prices, key=lambda x: x[0]) (line 129): the first of the cheapest
MinFirst(prices) ==
    LET k == CHOOSE k \in 1..Len(prices) :
                 /\ \A j \in 1..Len(prices) : prices[k][1] <= prices[j][1]
                 /\ \A j \in 1..(k - 1) : prices[j][1] > prices[k][1]
    IN  prices[k]

\* Amounts are exact: prices and quantities are whole numbers, a margin or a
\* tax rate is a whole number of percent, and an amount that a percentage
\* was applied to is held as the integer count of its hundredths (one
\* percentage) or ten-thousandths (margin and tax).
\* default_margin = 0.15, in percent
DefaultMarginPercent == 15

\* tax_rate = 0.20, in percent
TaxRatePercent == 20

\* self.category_margins.get(category, self.default_margin) (lines 48-59,
\* 132), in percent; the keys are spelt without their diacritics
CategoryMargin(category) ==
    CASE category = "mehanika" -> 18
      [] category = "elektro" -> 16
      [] category = "izolacija" -> 14
      [] category = "montaza" -> 20
      [] category = "gradjevina" -> 12
      [] category = "vodovodne_instalacije" -> 17
      [] category = "infrastruktura" -> 15
      [] category = "demontaza" -> 25
      [] category = "transport" -> 10
      [] category = "ostalo" -> 15
      [] OTHER -> DefaultMarginPercent

\* _calculate_item_quote (lines 103-148): None without a price, else the
\* QuoteItem, tagged; final_unit_price and final_total_price in hundredths
_calculate_item_quote(original_item, supplier_responses) ==
    LET prices == ResponsePrices(original_item.position_number,
                                 original_item.description, supplier_responses, 1)
        margin_percentage == CategoryMargin(original_item.category)
    IN  IF prices = <<>> THEN None
        ELSE <<"QuoteItem",
               [position |-> original_item.position_number,
                description |-> original_item.description,
                margin_percentage |-> margin_percentage,
                quantity |-> original_item.quantity,
                best_unit_price |-> MinFirst(prices)[1],
                total_price |-> MinFirst(prices)[1] * original_item.quantity,
                selected_supplier |-> MinFirst(prices)[2],
                final_unit_price |-> MinFirst(prices)[1] * (100 + margin_percentage),
                final_total_price |->
                    MinFirst(prices)[1] * (100 + margin_percentage)
                       * original_item.quantity]>>

\* the quote items of calculate_quote (lines 68-74)
RECURSIVE calculate_quote(_, _, _)
calculate_quote(original_items, supplier_responses, i) ==
    IF i > Len(original_items) THEN <<>>
    ELSE LET quote_item == _calculate_item_quote(original_items[i], supplier_responses)
         IN  (IF quote_item[1] # "none" THEN <<quote_item[2]>> ELSE <<>>)
             \o calculate_quote(original_items, supplier_responses, i + 1)

\* sum() of a list of amounts
RECURSIVE SumSeq(_)
SumSeq(s) == IF s = <<>> THEN 0 ELSE Head(s) + SumSeq(Tail(s))

\* a supplier total that keeps only the latest item's amount
AddToSupplierOverwriting(supplier_totals, supplier, amount) ==
    DictSet(supplier_totals, supplier, amount)

\* calculate_quote, lines 76-80: the supplier's total starts at 0.0 and the
\* item's final_total_price is added to it
AddToSupplier(supplier_totals, supplier, amount) ==
    DictSet(supplier_totals, supplier,
            (IF DictHas(supplier_totals, supplier)
             THEN DictGet(supplier_totals, supplier) ELSE 0) + amount)

\* supplier_totals after the loop over the quote items (hundredths)
RECURSIVE SupplierTotals(_, _, _)
SupplierTotals(quote_items, i, supplier_totals) ==
    IF i > Len(quote_items) THEN supplier_totals
    ELSE SupplierTotals(quote_items, i + 1,
                        AddToSupplier(supplier_totals,
                                      quote_items[i].selected_supplier,
                                      quote_items[i].final_total_price))

\* the totals of calculate_quote (lines 82-98): subtotal in whole units,
\* margin_total and supplier_breakdown in hundredths, tax_total and
\* final_total in ten-thousandths
QuoteCalculation(quote_items) ==
    LET n == Len(quote_items)
        subtotal == SumSeq([k \in 1..n |-> quote_items[k].total_price])
        margin_total ==
            SumSeq([k \in 1..n |-> quote_items[k].final_total_price
                                      - 100 * quote_items[k].total_price])
        final_total_before_tax ==
            SumSeq([k \in 1..n |-> quote_items[k].final_total_price])
        tax_total == final_total_before_tax * TaxRatePercent
    IN  [items |-> quote_items,
         subtotal |-> subtotal,
         margin_total |-> margin_total,
         tax_total |-> tax_total,
         final_total |-> 100 * final_total_before_tax + tax_total,
         supplier_breakdown |-> SupplierTotals(quote_items, 1, <<>>)]

CalculateQuote(original_items, supplier_responses) ==
    /\ last.op = "init"
    /\ last' = [items |-> calculate_quote(original_items, supplier_responses, 1),
                op |-> "calculate_quote",
                supplier_responses |-> supplier_responses,
                original_items |-> original_items,
                calculation |-> QuoteCalculation(
                    calculate_quote(original_items, supplier_responses, 1))]
    /\ UNCHANGED <<clock, rows, next_uuid, generators, active_generators, accepted,
                   received, started_at, credited, registered, sseVars,
                   concVars>>

\* the items of a request: {'position_number', 'description', 'quantity',
\* 'category'}
OriginalItems ==
    [position_number : {"", "1"},
     description : {<<>>, <<"a", "b", "c">>},
     quantity : {2},
     category : {"ostalo"}]

\* the second item of a request, if any: one no offer matches, or one at
\* position "1" in another category
SecondItems ==
    {<<>>,
     <<[description |-> <<>>, category |-> "ostalo", position_number |-> "2",
        quantity |-> 2]>>,
     <<[description |-> <<>>, category |-> "transport", position_number |-> "1",
        quantity |-> 3]>>}

\* the items of a supplier response: {'position', 'description', 'unit_price'}
Offers ==
    [position : {"", "1"},
     description : {<<>>, <<"A", "b">>, <<"a", "B", "c", "d", "e">>,
                    <<"a", "b", "c", "d", "e", "f">>},
     unit_price : {0, 5, 7}]

\* the lists of at most n offers
RECURSIVE OfferLists(_)
OfferLists(n) ==
    IF n = 0 THEN {<<>>}
    ELSE OfferLists(n - 1) \cup
         {Append(l, o) : l \in {x \in OfferLists(n - 1) : Len(x) = n - 1}, o \in Offers}

\* the second supplier answers with one item
SecondOffers ==
    {[position |-> "1", description |-> <<>>, unit_price |-> 7],
     [position |-> "", description |-> <<"A", "b">>, unit_price |-> 5]}

NextQuote ==
    /\ last.op = "init"
    /\ \E first \in OriginalItems,
          second \in SecondItems,
          items1 \in OfferLists(MaxOffers), item2 \in SecondOffers :
           CalculateQuote(<<first>> \o second,
                          <<[items |-> items1, supplier_name |-> "S1"],
                            [items |-> <<item2>>, supplier_name |-> "S2"]>>)

SpecQuote == InitStore /\ [][NextQuote]_vars

(***************************************************************************)
(* EventGenerator called from two threads at once: the statements of       *)
(* agent_started and _create_event (workflow_events.py, lines 213-239,     *)
(* 293-326) interleave; nothing in the class takes a lock.                 *)
(***************************************************************************)
\* the emitting methods the threads call, all naming the agent "parser"
RaceOps == {"agent_started", "agent_completed", "agent_error"}

\* thread t enters op; agent_started first records the start (line 295)
CallBegin(t, op) ==
    /\ calls[t].pc = "idle"
    /\ next_uuid + Cardinality({u \in Threads : calls[u].pc # "idle"}) <= MaxEvents
    /\ calls' = [calls EXCEPT
          ![t].pc = "test", ![t].op = op, ![t].duration = None,
          ![t].starts = IF op = "agent_started" THEN @ + 1 ELSE @]
    /\ generators' =
          IF op = "agent_started"
          THEN [generators EXCEPT ![1].start_times = DictSet(@, "parser", clock)]
          ELSE generators
    /\ last' = [op |-> "call", thread |-> t]
    /\ UNCHANGED <<clock, rows, next_uuid, active_generators, accepted, received,
                   started_at, credited, registered, sseVars, bcast, mock>>

\* _create_event, `if agent_name in self.start_times` (line 221)
CallTest(t) ==
    /\ calls[t].pc = "test"
    /\ calls' = [calls EXCEPT ![t].pc =
                    IF DictHas(generators[1].start_times, "parser")
                    THEN "read" ELSE "emit"]
    /\ last' = [op |-> "test", thread |-> t]
    /\ UNCHANGED <<clock, rows, next_uuid, generators, active_generators, accepted,
                   received, started_at, credited, registered, sseVars, bcast, mock>>

\* _create_event, `time.time() - self.start_times[agent_name]` (line 222): the
\* subscript raises KeyError when the entry is gone, and the method that
\* called _create_event passes the exception on to its caller
CallRead(t) ==
    /\ calls[t].pc = "read"
    /\ IF DictHas(generators[1].start_times, "parser")
       THEN /\ calls' = [calls EXCEPT
                  ![t].pc = "del",
                  ![t].duration =
                      <<"float", clock - DictGet(generators[1].start_times, "parser")>>]
            /\ last' = [op |-> "read", thread |-> t]
       ELSE /\ calls' = [calls EXCEPT ![t].pc = "idle"]
            /\ last' = [raised |-> TRUE, op |-> calls[t].op, thread |-> t]
    /\ UNCHANGED <<clock, rows, next_uuid, generators, active_generators, accepted,
                   received, started_at, credited, registered, sseVars, bcast, mock>>

\* _create_event, `del self.start_times[agent_name]` (line 223): KeyError
\* when the entry is gone
CallDel(t) ==
    /\ calls[t].pc = "del"
    /\ IF DictHas(generators[1].start_times, "parser")
       THEN /\ calls' = [calls EXCEPT ![t].pc = "emit"]
            /\ generators' = [generators EXCEPT
                  ![1].start_times = DictDel(@, "parser")]
            /\ last' = [op |-> "del", thread |-> t]
       ELSE /\ calls' = [calls EXCEPT ![t].pc = "idle"]
            /\ generators' = generators
            /\ last' = [raised |-> TRUE, op |-> calls[t].op, thread |-> t]
    /\ UNCHANGED <<clock, rows, next_uuid, active_generators, accepted, received,
                   started_at, credited, registered, sseVars, bcast, mock>>

\* the event is built with the duration the thread computed (lines 225-239)
\* and emitted; the call returns
CallEmit(t) ==
    LET gen == generators[1]
        event == [_create_event([gen EXCEPT !.start_times = <<>>], next_uuid, clock,
                                calls[t].op, "parser", "info", <<"parser">>,
                                EmptyDict, None).event
                    EXCEPT !.duration = calls[t].duration]
        em == _emit_event(rows, gen.event_handlers, event, TRUE)
    IN  /\ calls[t].pc = "emit"
        /\ calls' = [calls EXCEPT
              ![t].pc = "idle",
              ![t].durations = IF event.duration # None THEN @ + 1 ELSE @]
        /\ next_uuid' = next_uuid + 1
        /\ rows' = em.rows
        /\ accepted' = Append(accepted, event)
        /\ last' = [event |-> event, raised |-> em.raised, op |-> calls[t].op,
                    thread |-> t]
        /\ UNCHANGED <<clock, generators, active_generators, received, started_at,
                       credited, registered, sseVars, bcast, mock>>

NextRace ==
    \/ \E t \in Threads, op \in RaceOps : CallBegin(t, op)
    \/ \E t \in Threads : CallTest(t)
    \/ \E t \in Threads : CallRead(t)
    \/ \E t \in Threads : CallDel(t)
    \/ \E t \in Threads : CallEmit(t)

SpecRace == InitGen /\ [][NextRace]_vars

(***************************************************************************)
(* SSEServer.start_broadcasting and stop_broadcasting called from several  *)
(* threads (sse_server.py, lines 541-570): their statements interleave     *)
(* with each other and with the loop threads; no lock is taken.            *)
(***************************************************************************)
\* the loop threads that have not returned
AliveLoops(b) == {k \in 1..Len(b.loops) : b.loops[k] # "dead"}

\* start_broadcasting, `if self.broadcast_thread and
\* self.broadcast_thread.is_alive(): return` (lines 543-544) on thread t
StartCheck(t) ==
    /\ bcast.callers[t].pc = "idle"
    /\ Len(bcast.loops)
          + Cardinality({u \in Threads : bcast.callers[u].pc \in {"set", "spawn"}})
          < MaxLoops
    /\ IF bcast.thread # 0 /\ bcast.thread \in AliveLoops(bcast)
       THEN /\ last' = [op |-> "start_broadcasting", thread |-> t,
                        overtaken |-> FALSE, after_stop |-> bcast.stop_begun]
            /\ UNCHANGED bcast
       ELSE /\ bcast' = [bcast EXCEPT !.callers[t] =
                            [pc |-> "set", overtaken |-> FALSE,
                             after_stop |-> bcast.stop_begun]]
            /\ last' = [op |-> "start_check", thread |-> t]
    /\ UNCHANGED <<clock, rows, next_uuid, generators, active_generators, accepted,
                   received, started_at, credited, registered, sseVars, calls, mock>>

\* start_broadcasting, `self.running = True` (line 546)
StartSet(t) ==
    /\ bcast.callers[t].pc = "set"
    /\ bcast' = [bcast EXCEPT !.running = TRUE, !.callers[t].pc = "spawn"]
    /\ last' = [op |-> "start_set", thread |-> t]
    /\ UNCHANGED <<clock, rows, next_uuid, generators, active_generators, accepted,
                   received, started_at, credited, registered, sseVars, calls, mock>>

\* start_broadcasting, the thread is created, assigned and started (lines
\* 547-548); the call returns
StartSpawn(t) ==
    /\ bcast.callers[t].pc = "spawn"
    /\ bcast' = [bcast EXCEPT !.loops = Append(@, "testing"),
                              !.thread = Len(bcast.loops) + 1,
                              !.callers[t] = [pc |-> "idle", overtaken |-> FALSE,
                                              after_stop |-> FALSE]]
    /\ last' = [op |-> "start_broadcasting", thread |-> t,
                overtaken |-> bcast.callers[t].overtaken,
                after_stop |-> bcast.callers[t].after_stop]
    /\ UNCHANGED <<clock, rows, next_uuid, generators, active_generators, accepted,
                   received, started_at, credited, registered, sseVars, calls, mock>>

\* stop_broadcasting, `self.running = False` (line 553): the start calls in
\* progress began before this stop
StopClear(t) ==
    /\ bcast.callers[t].pc = "idle"
    /\ bcast' = [bcast EXCEPT
          !.running = FALSE,
          !.stop_begun = TRUE,
          !.callers = [u \in Threads |->
                          IF u = t THEN [@[u] EXCEPT !.pc = "join"]
                          ELSE [@[u] EXCEPT !.overtaken = @ \/ bcast.callers[u].pc # "idle"]]]
    /\ last' = [op |-> "stop_clear", thread |-> t]
    /\ UNCHANGED <<clock, rows, next_uuid, generators, active_generators, accepted,
                   received, started_at, credited, registered, sseVars, calls, mock>>

\* stop_broadcasting, `self.broadcast_thread.join(timeout=5)` (lines 554-555):
\* the thread the attribute names now has returned (the loop tests the flag
\* every 0.1 s, well inside the timeout), or there is none; the call returns
StopJoin(t) ==
    /\ bcast.callers[t].pc = "join"
    /\ bcast.thread = 0 \/ bcast.thread \notin AliveLoops(bcast)
    /\ bcast' = [bcast EXCEPT !.callers[t].pc = "idle"]
    /\ last' = [op |-> "stop_broadcasting", thread |-> t]
    /\ UNCHANGED <<clock, rows, next_uuid, generators, active_generators, accepted,
                   received, started_at, credited, registered, sseVars, calls, mock>>

\* _broadcast_loop of loop thread k, `while self.running` (line 560)
RaceLoopTest(k) ==
    /\ bcast.loops[k] = "testing"
    /\ bcast' = [bcast EXCEPT !.loops[k] = IF bcast.running THEN "draining"
                                           ELSE "dead"]
    /\ last' = [op |-> "loop_test", loop |-> k]
    /\ UNCHANGED <<clock, rows, next_uuid, generators, active_generators, accepted,
                   received, started_at, credited, registered, sseVars, calls, mock>>

\* _broadcast_loop of loop thread k, the queue is drained and the thread
\* sleeps (lines 561-567)
RaceLoopBody(k) ==
    /\ bcast.loops[k] = "draining"
    /\ bcast' = [bcast EXCEPT !.loops[k] = "testing"]
    /\ last' = [op |-> "loop_body", loop |-> k]
    /\ UNCHANGED <<clock, rows, next_uuid, generators, active_generators, accepted,
                   received, started_at, credited, registered, sseVars, calls, mock>>

NextBroadcast ==
    \/ \E t \in Threads : StartCheck(t)
    \/ \E t \in Threads : StartSet(t)
    \/ \E t \in Threads : StartSpawn(t)
    \/ \E t \in Threads : StopClear(t)
    \/ \E t \in Threads : StopJoin(t)
    \/ \E k \in 1..Len(bcast.loops) : RaceLoopTest(k)
    \/ \E k \in 1..Len(bcast.loops) : RaceLoopBody(k)

SpecBroadcast == InitSse /\ [][NextBroadcast]_vars

(***************************************************************************)
(* MockEventGenerator and MockSSEServer (mock_sse_server.py)               *)
(***************************************************************************)
\* MockEventGenerator.agents (lines 25-32)
MockAgents == <<"excel_parser_agent", "supplier_mapping_agent",
                "communication_agent", "response_parser_agent",
                "quote_calculator_agent", "document_generator_agent">>

\* the generate calls _run_mock_workflow makes for one agent (lines 775-792):
\* agent started, four progress updates, a metric, and an error or a completion
AgentScript == <<"agent_started", "progress_update", "progress_update",
                 "progress_update", "progress_update", "performance_metric",
                 "agent_outcome">>

RECURSIVE AgentsScript(_)
AgentsScript(i) ==
    IF i > Len(MockAgents) THEN <<>> ELSE AgentScript \o AgentsScript(i + 1)

\* the generate calls of one simulation, in order (lines 769-796)
MockScript == <<"workflow_started">> \o AgentsScript(1) \o <<"workflow_completed">>

\* f"event_{n}"
MockEventId(n) == <<"event_", n>>

\* generate_workflow_started_event (lines 44-65): the id is built from the
\* counter as it stands
generate_workflow_started_event(event_count) ==
    [event |-> [event_id |-> MockEventId(event_count),
                event_type |-> "workflow_started"],
     event_count |-> event_count]

\* every other generate method (lines 67-246): the counter is incremented first
generate_counted_event(event_count, event_type) ==
    [event |-> [event_id |-> MockEventId(event_count + 1),
                event_type |-> event_type],
     event_count |-> event_count + 1]

\* the event types a script entry may produce: the outcome of an agent is an
\* error with probability 0.1, a completion otherwise (lines 789-792)
ScriptTypes(entry) ==
    IF entry = "agent_outcome" THEN {"agent_error", "agent_completed"} ELSE {entry}

\* the simulation threads that have not ended
ActiveSims(m) == {s \in 1..Len(m.sims) : m.sims[s] # 0}

\* _start_mock_workflow, `if self.running: return` (lines 759-760), on the
\* thread of request r
MockReqCheck(r) ==
    /\ mock.reqs[r] = "idle"
    /\ Len(mock.sims) + Cardinality({q \in Requests : mock.reqs[q] # "idle"})
          < MaxRuns
    /\ IF mock.running
       THEN /\ last' = [op |-> "start_mock_workflow", started |-> FALSE]
            /\ UNCHANGED mock
       ELSE /\ mock' = [mock EXCEPT !.reqs[r] = "checked"]
            /\ last' = [op |-> "start_mock_workflow_check"]
    /\ UNCHANGED <<clock, rows, next_uuid, generators, active_generators, accepted,
                   received, started_at, credited, registered, sseVars, calls,
                   bcast>>

\* _start_mock_workflow, `self.running = True` (line 762)
MockReqSet(r) ==
    /\ mock.reqs[r] = "checked"
    /\ mock' = [mock EXCEPT !.running = TRUE, !.reqs[r] = "set"]
    /\ last' = [op |-> "start_mock_workflow_set"]
    /\ UNCHANGED <<clock, rows, next_uuid, generators, active_generators, accepted,
                   received, started_at, credited, registered, sseVars, calls,
                   bcast>>

\* _start_mock_workflow, the thread is created and started (lines 763-764)
MockReqSpawn(r) ==
    /\ mock.reqs[r] = "set"
    /\ mock' = [mock EXCEPT !.sims = Append(@, 1), !.reqs[r] = "idle"]
    /\ last' = [op |-> "start_mock_workflow", started |-> TRUE]
    /\ UNCHANGED <<clock, rows, next_uuid, generators, active_generators, accepted,
                   received, started_at, credited, registered, sseVars, calls,
                   bcast>>

\* _run_mock_workflow, the next generate call of simulation s
SimStep(s) ==
    /\ mock.sims[s] \in 1..Len(MockScript)
    /\ \E event_type \in ScriptTypes(MockScript[mock.sims[s]]) :
          LET g == IF event_type = "workflow_started"
                   THEN generate_workflow_started_event(mock.event_count)
                   ELSE generate_counted_event(mock.event_count, event_type)
          IN  /\ mock' = [mock EXCEPT !.event_count = g.event_count,
                                      !.ids = @ \cup {g.event.event_id},
                                      !.sims[s] = @ + 1]
              /\ last' = [event |-> g.event, op |-> "mock_event",
                          earlier |-> mock.ids, sim |-> s]
    /\ UNCHANGED <<clock, rows, next_uuid, generators, active_generators, accepted,
                   received, started_at, credited, registered, sseVars, calls,
                   bcast>>

\* _run_mock_workflow, an exception in the body is caught and logged
\* (lines 798-799): control goes to the finally clause
SimRaise(s) ==
    /\ mock.sims[s] \in 1..Len(MockScript)
    /\ mock' = [mock EXCEPT !.sims[s] = Len(MockScript) + 1]
    /\ last' = [op |-> "mock_workflow_error", sim |-> s]
    /\ UNCHANGED <<clock, rows, next_uuid, generators, active_generators, accepted,
                   received, started_at, credited, registered, sseVars, calls,
                   bcast>>

\* _run_mock_workflow, `finally: self.running = False` (lines 800-801), and
\* the thread ends
SimFinally(s) ==
    /\ mock.sims[s] = Len(MockScript) + 1
    /\ mock' = [mock EXCEPT !.running = FALSE, !.sims[s] = 0]
    /\ last' = [op |-> "mock_workflow_ended", sim |-> s]
    /\ UNCHANGED <<clock, rows, next_uuid, generators, active_generators, accepted,
                   received, started_at, credited, registered, sseVars, calls,
                   bcast>>

\* one client requesting /mock/start-workflow again and again, each request
\* answered before the next is sent
NextMockRuns ==
    \/ MockReqCheck(1)
    \/ MockReqSet(1)
    \/ MockReqSpawn(1)
    \/ \E s \in 1..Len(mock.sims) : SimStep(s)
    \/ \E s \in 1..Len(mock.sims) : SimRaise(s)
    \/ \E s \in 1..Len(mock.sims) : SimFinally(s)

SpecMockRuns == InitStore /\ [][NextMockRuns]_vars

\* concurrent requests to /mock/start-workflow, each on its own thread
NextMockRequests ==
    \/ \E r \in Requests : MockReqCheck(r)
    \/ \E r \in Requests : MockReqSet(r)
    \/ \E r \in Requests : MockReqSpawn(r)
    \/ \E s \in 1..Len(mock.sims) : SimStep(s)
    \/ \E s \in 1..Len(mock.sims) : SimRaise(s)
    \/ \E s \in 1..Len(mock.sims) : SimFinally(s)

SpecMockRequests == InitStore /\ [][NextMockRequests]_vars

(***************************************************************************)
(* Properties of the store                                                 *)
(***************************************************************************)
IsQuery == last.op = "get_event_history"

IsWorkflowQuery == IsQuery /\ last.workflow_id # ""

\* a datetime is no later than another
DtLeq(a, b) == a.s < b.s \/ (a.s = b.s /\ a.us <= b.us)

\* the stored events a query is about
InScope(i) == ~IsWorkflowQuery \/ rows[i].workflow_id = last.workflow_id

Returned(i) == \E k \in 1..Len(last.ret) : last.ret[k].event_id = rows[i].event_id

\* C4: get_events_by_workflow(W, N) returns at most N records (none for a
\* negative N), each of workflow W, for every integer N.
C4_AtMostLimit ==
    IsWorkflowQuery =>
        /\ Len(last.ret) <= (IF last.limit < 0 THEN 0 ELSE last.limit)
        /\ \A k \in 1..Len(last.ret) : last.ret[k].workflow_id = last.workflow_id

\* C5: both queries return the events in non-increasing timestamp order, and
\* every stored event in scope that is not returned has a timestamp no later
\* than every returned event.
C5_NewestFirst ==
    IsQuery =>
        /\ \A k \in 1..(Len(last.ret) - 1) :
              DtLeq(last.ret[k + 1].timestamp, last.ret[k].timestamp)
        /\ \A i \in 1..Len(rows) :
              (InScope(i) /\ ~Returned(i)) =>
                 \A k \in 1..Len(last.ret) :
                    DtLeq(fromisoformat(rows[i].timestamp), last.ret[k].timestamp)

C5_Witness ==
    /\ IsQuery
    /\ last.limit = 1
    /\ Len(last.ret) = 1
    /\ Len(rows) = 2
    /\ \E i \in 1..Len(rows) :
          /\ InScope(i)
          /\ ~Returned(i)
          /\ last.ret[1].timestamp = [s |-> 10, us |-> 0]
          /\ fromisoformat(rows[i].timestamp) = [s |-> 9, us |-> 500000]

\* C6: get_events_by_workflow for a workflow id that no stored event carries
\* returns the empty list, whatever the store holds.
C6_UnknownWorkflowEmpty ==
    (IsWorkflowQuery /\ \A i \in 1..Len(rows) : rows[i].workflow_id # last.workflow_id)
        => last.ret = <<>>

C6_Witness ==
    /\ IsWorkflowQuery
    /\ last.ioOk
    /\ last.limit = 50
    /\ Len(rows) = 2
    /\ \A i \in 1..Len(rows) : rows[i].workflow_id # last.workflow_id
    /\ last.ret = <<>>

\* C18: when the read fails, get_events_by_workflow and get_recent_events
\* return the empty list and raise nothing: the result is the one an empty
\* store gives.
C18_FailedReadIsEmpty ==
    (IsQuery /\ ~last.ioOk) =>
        /\ last.ret = <<>>
        /\ last.ret \in get_event_history(<<>>, last.workflow_id, last.limit, TRUE)

C18_Witness ==
    /\ IsWorkflowQuery
    /\ ~last.ioOk
    /\ last.limit = 50
    /\ Len(rows) = 2
    /\ \A i \in 1..Len(rows) : rows[i].workflow_id = last.workflow_id
    /\ last.ret = <<>>

\* strings, numbers, booleans, lists and mappings with string keys, nested
RECURSIVE JsonNative(_)
JsonNative(v) ==
    CASE v[1] \in {"str", "int", "float", "bool"} -> TRUE
      [] v[1] = "list" -> \A i \in 1..Len(v[2]) : JsonNative(v[2][i])
      [] v[1] = "dict" ->
           \A i \in 1..Len(v[2]) : v[2][i][1][1] = "str" /\ JsonNative(v[2][i][2])
      [] OTHER -> FALSE

\* the event store_event was given for a returned event
Original(e) == accepted[CHOOSE i \in 1..Len(accepted) : accepted[i].event_id = e.event_id]

\* C7: an event stored with a data mapping of strings, numbers, booleans and
\* lists, nested, is returned by a query with an equal data mapping and with
\* event_id, workflow_id, event_type, agent_name, status, message, duration and
\* error unchanged.
C7_RoundTrip ==
    IsQuery =>
        \A k \in 1..Len(last.ret) :
            LET e == last.ret[k]
                o == Original(e)
            IN  JsonNative(o.data) =>
                   /\ e.data = o.data
                   /\ e.event_id = o.event_id
                   /\ e.workflow_id = o.workflow_id
                   /\ e.event_type = o.event_type
                   /\ e.agent_name = o.agent_name
                   /\ e.status = o.status
                   /\ e.message = o.message
                   /\ e.duration = o.duration
                   /\ e.error = o.error

C7_Witness ==
    /\ IsQuery
    /\ \E k \in 1..Len(last.ret) :
          /\ Original(last.ret[k]).data = NestedData
          /\ last.ret[k].data = NestedData
          /\ last.ret[k].error = Str("boom")

\* the ids of the events a query returned
EventIds(ret) == {ret[k].event_id : k \in 1..Len(ret)}

\* C11: the store is append-only under store_event, both queries,
\* create_generator, get_generator and remove_generator: every row that was in
\* the store before the call is still present, unmodified, after it; and after
\* remove_generator(W) every persisted event of W is returned by
\* get_events_by_workflow(W).
C11_AppendOnly ==
    [][/\ Len(rows') >= Len(rows)
       /\ \A i \in 1..Len(rows) : \E j \in 1..Len(rows') : rows'[j] = rows[i]
       /\ last'.op = "remove_generator" =>
             \A i \in 1..Len(accepted') :
                accepted'[i].workflow_id = last'.workflow_id =>
                   \A ret \in get_events_by_workflow(rows', last'.workflow_id,
                                                     Len(rows'), TRUE) :
                      accepted'[i].event_id \in EventIds(ret)]_vars

C11_Witness ==
    /\ last.op = "remove_generator"
    /\ last.workflow_id = "W1"
    /\ DictHas(last.before, "W1")
    /\ ~DictHas(active_generators, "W1")
    /\ Len(rows) = 2
    /\ \A i \in 1..Len(rows) : rows[i].workflow_id = "W1"
    /\ \A ret \in get_events_by_workflow(rows, "W1", 50, TRUE) : Len(ret) = 2

\* C12: no two rows of the store share an event_id: a store_event call for an
\* event whose event_id is already stored raises to its caller and leaves the
\* stored rows unchanged.
C12_UniqueEventId ==
    [][/\ \A i, j \in 1..Len(rows') :
             i # j => rows'[i].event_id # rows'[j].event_id
       /\ (/\ last'.op = "store_event"
           /\ \E i \in 1..Len(rows) : rows[i].event_id = last'.event.event_id)
             => (last'.raised /\ rows' = rows)]_vars

C12_Witness ==
    /\ last.op = "store_event"
    /\ last.ioOk
    /\ last.raised
    /\ Len(rows) = 1
    /\ rows[1].event_id = last.event.event_id
    /\ rows[1] # EventToRow(last.event)

(***************************************************************************)
(* Properties of the EventManager                                          *)
(***************************************************************************)
\* the workflow ids whose latest create_generator / remove_generator call was
\* create_generator
RegisteredIds == {w \in Workflows : registered[w] # 0}

\* C10: after any sequence of create_generator, get_generator and
\* remove_generator calls, get_active_workflows() lists exactly the workflow
\* ids whose latest create / remove call was create_generator, each once;
\* get_generator(W) returns the generator the latest create_generator(W)
\* returned, or None when W is not registered; get_generator adds no entry, and
\* remove_generator of an absent id changes nothing.
C10_RegistryTracksCalls ==
    /\ Range(get_active_workflows(active_generators)) = RegisteredIds
    /\ Len(get_active_workflows(active_generators)) = Cardinality(RegisteredIds)
    /\ \A w \in Workflows : get_generator(active_generators, w) = registered[w]
    /\ last.op = "get_active_workflows" =>
          Range(last.ret) = RegisteredIds /\ Len(last.ret) = Cardinality(RegisteredIds)
    /\ last.op = "get_generator" =>
          last.ret = registered[last.workflow_id] /\ active_generators = last.before
    /\ (last.op = "remove_generator" /\ ~DictHas(last.before, last.workflow_id)) =>
          active_generators = last.before
    /\ last.op = "create_generator" =>
          get_generator(active_generators, last.workflow_id) = last.ret

C10_Witness ==
    /\ last.op = "get_active_workflows"
    /\ last.ret = <<"W2">>
    /\ Len(generators) = 2
    /\ generators[1].workflow_id = "W1"
    /\ registered = [w \in Workflows |-> IF w = "W2" THEN 2 ELSE 0]

(***************************************************************************)
(* Properties of the EventGenerator                                        *)
(***************************************************************************)
EmitOps == {"workflow_started", "workflow_completed", "workflow_error",
            "agent_started", "agent_completed", "agent_error",
            "performance_metric", "progress_update", "status_update"}

IsEmit == last.op \in EmitOps

\* the latest call's event is a row of the store, as store_event writes it
Persisted == \E i \in 1..Len(rows) : rows[i] = EventToRow(last.event)

\* C1: an agent_completed(A) call that follows an agent_started(A) call, with no
\* second agent_started(A) and no other completion of A in between, creates an
\* event whose duration is not None, is non-negative and equals the time
\* between the two calls.
C1_CompletedCarriesElapsed ==
    (last.op = "agent_completed" /\ last.started_call # -1) =>
        /\ last.event.duration # None
        /\ last.event.duration[2] >= 0
        /\ last.event.duration = <<"float", last.now - last.started_call>>

\* C2: an event with a duration is an agent_completed or agent_error event of
\* an agent whose agent_started this generator recorded; every other event is
\* created with duration None.
C2_DurationOnlyOnCompletion ==
    (IsEmit /\ last.event.duration # None) =>
        /\ last.op \in {"agent_completed", "agent_error"}
        /\ last.started_call # -1

C9_EmitNeverRaises == IsEmit => ~last.raised

C9_Witness ==
    /\ IsEmit
    /\ last.store_raised
    /\ ~Serializable(last.event.data)
    /\ "raising_handler" \in Range(last.handlers)
    /\ ~last.raised

\* C20: on every emitting call the store write is attempted first, and then,
\* whether or not it succeeded, every registered handler is called exactly
\* once with the event, in registration order.
C20_EveryHandlerOnce ==
    IsEmit =>
        /\ last.store_raised \/ Persisted
        /\ last.invoked = last.handlers

\* C21: one generator driven by one thread: the rows of the store and the
\* events the well-behaved handler observes are in the order of the emitting
\* calls (event_id counts the calls), and the store write of an emitting call
\* is complete when the call returns, before the next event is created: the
\* event is then the newest row and its id is behind the next id.
C21_CallOrder ==
    [][/\ \A i, j \in 1..Len(rows') :
             i < j => rows'[i].event_id < rows'[j].event_id
       /\ \A i, j \in 1..Len(received') : i < j => received'[i] <= received'[j]
       /\ \A i \in 1..Len(received') :
             \E j \in 1..Len(rows') : rows'[j].event_id = received'[i]
       /\ (last'.op \in EmitOps /\ last' # last /\ ~last'.store_raised) =>
             /\ Len(rows') = Len(rows) + 1
             /\ rows'[Len(rows')] = EventToRow(last'.event)
             /\ last'.event.event_id < next_uuid']_vars

C21_Witness ==
    /\ IsEmit
    /\ Len(rows) = 2
    /\ received = <<1, 2>>
    /\ rows[2] = EventToRow(last.event)
    /\ rows[1].event_type = "agent_started"

\* C24: between the emitting calls of its one thread a generator's start_times
\* table holds no entry, whatever calls were made: agent_started records the
\* start and the event it creates takes the entry out again.
C24_StartTimesEmpty ==
    \A g \in 1..Len(generators) : generators[g].start_times = <<>>

C24_Witness ==
    /\ last.op = "agent_started"
    /\ last.event.agent_name = "parser"
    /\ last.event.duration = <<"float", 0>>
    /\ Persisted
    /\ generators[1].start_times = <<>>

RECURSIVE SumOver(_, _)
SumOver(f, S) ==
    IF S = {} THEN 0
    ELSE LET t == CHOOSE u \in S : TRUE IN f[t] + SumOver(f, S \ {t})

StartsRecorded == SumOver([t \in Threads |-> calls[t].starts], Threads)

DurationsGiven == SumOver([t \in Threads |-> calls[t].durations], Threads)

\* C26: two threads call emitting methods naming the same agent on one
\* generator while a start time of that agent is recorded: under every
\* interleaving at most one event receives the duration of a recorded start,
\* and no call raises to its caller.
C26_RaceSafe ==
    /\ DurationsGiven <= StartsRecorded
    /\ last.op \in EmitOps => ~last.raised

(***************************************************************************)
(* Properties of the quote calculator                                      *)
(***************************************************************************)
\* word-overlap similarity of two descriptions is at least 0.6
Similar(d1, d2) ==
    /\ WordSet(d1) # {} /\ WordSet(d2) # {}
    /\ 10 * Cardinality(WordSet(d1) \cap WordSet(d2))
          >= 6 * Cardinality(WordSet(d1) \cup WordSet(d2))

\* the offers <<response, item>> that match an original item and carry a
\* positive price
MatchingOffers(o, responses) ==
    {rk \in (1..Len(responses)) \X (1..(MaxOffers + 1)) :
        /\ rk[2] <= Len(responses[rk[1]].items)
        /\ LET it == responses[rk[1]].items[rk[2]]
           IN  /\ \/ o.position_number # "" /\ it.position = o.position_number
                  \/ Similar(o.description, it.description)
               /\ it.unit_price > 0}

OfferPrice(responses, rk) == responses[rk[1]].items[rk[2]].unit_price

\* response order
Earlier(a, b) == a[1] < b[1] \/ (a[1] = b[1] /\ a[2] < b[2])

\* C19: for every original item, among the supplier offers that match it (same
\* non-empty position, or description similarity >= 0.6) with unit_price > 0,
\* the quote item's best_unit_price is the minimum of their prices and
\* selected_supplier is the supplier of the first such offer, in response
\* order, at that price; an item without such an offer is omitted.
C19_GreedyMinPrice ==
    last.op = "calculate_quote" =>
        LET resp == last.supplier_responses
            quoted == SelectSeq(last.original_items,
                                LAMBDA o : MatchingOffers(o, resp) # {})
        IN  /\ Len(last.items) = Len(quoted)
            /\ \A j \in 1..Len(quoted) :
                  LET m == MatchingOffers(quoted[j], resp)
                      q == last.items[j]
                  IN  /\ q.position = quoted[j].position_number
                      /\ q.description = quoted[j].description
                      /\ \A rk \in m : q.best_unit_price <= OfferPrice(resp, rk)
                      /\ \E rk \in m :
                            /\ OfferPrice(resp, rk) = q.best_unit_price
                            /\ resp[rk[1]].supplier_name = q.selected_supplier
                            /\ \A other \in m :
                                  OfferPrice(resp, other) = q.best_unit_price
                                     => ~Earlier(other, rk)

\* two suppliers offer the same lowest price, one matched by similarity 3/5 and
\* one by position; an offer at a lower price that does not match and an item
\* without offers are left out
C19_Witness ==
    /\ last.op = "calculate_quote"
    /\ Len(last.original_items) = 2
    /\ Len(last.items) = 1
    /\ last.original_items[1].position_number = "1"
    /\ last.items[1].position = "1"
    /\ last.items[1].best_unit_price = 7
    /\ last.items[1].selected_supplier = "S1"
    /\ last.supplier_responses[1].items =
          <<[position |-> "", description |-> <<"a", "b", "c", "d", "e", "f">>,
             unit_price |-> 5],
            [position |-> "", description |-> <<"a", "B", "c", "d", "e">>,
             unit_price |-> 7]>>
    /\ last.supplier_responses[2].items[1] =
          [position |-> "1", description |-> <<>>, unit_price |-> 7]

\* C30: the totals of a calculate_quote result agree, in exact arithmetic:
\* subtotal + margin_total is the sum of the items' final_total_price, the
\* supplier_breakdown values add up to that same pre-tax sum, tax_total is
\* the pre-tax sum times tax_rate, and final_total is the pre-tax sum plus
\* tax_total.
C30_TotalsConsistent ==
    last.op = "calculate_quote" =>
        LET c == last.calculation
            pre_tax == SumSeq([k \in 1..Len(c.items) |->
                                  c.items[k].final_total_price])
        IN  /\ c.items = last.items
            /\ 100 * c.subtotal + c.margin_total = pre_tax
            /\ SumSeq([k \in 1..Len(c.supplier_breakdown) |->
                          c.supplier_breakdown[k][2]]) = pre_tax
            /\ c.tax_total = pre_tax * TaxRatePercent
            /\ c.final_total = 100 * pre_tax + c.tax_total

\* two items go to the same supplier at different margins
C30_Witness ==
    /\ last.op = "calculate_quote"
    /\ Len(last.calculation.items) = 2
    /\ last.calculation.items[1].selected_supplier = "S1"
    /\ last.calculation.items[2].selected_supplier = "S1"
    /\ last.calculation.items[1].margin_percentage = 15
    /\ last.calculation.items[2].margin_percentage = 10
    /\ last.calculation.subtotal = 25
    /\ last.calculation.supplier_breakdown = <<<<"S1", 2800>>>>
    /\ last.calculation.final_total = 336000

(***************************************************************************)
(* Properties of the SSE server                                            *)
(***************************************************************************)
\* the listeners whose stream is open
Listening(c) == streams[c].pc \in {"connected", "heartbeat"}

\* C13: each envelope drained from the queue is delivered to exactly the
\* listeners in the subscriber set at that time: with two listeners connected
\* one broadcast event is received by both as a workflow_event envelope with
\* the same event.event_id, and a listener that disconnected before the
\* broadcast does not receive it.
C13_DeliveredToSubscribers ==
    \A d \in 1..Len(drained) : \A c \in Conns :
        streams[c].pc # "new" =>
           (streams[c].client_id \in drained[d].subs
               <=> \E k \in 1..Len(streams[c].out) :
                      /\ streams[c].out[k].type = "workflow_event"
                      /\ streams[c].out[k].event.event_id = drained[d].env.event.event_id)

\* C14: create_sse_server builds a server, and with that server and at least
\* one listener connected every event a generator of
\* event_manager.create_generator emits is put on the server's queue as a
\* workflow_event envelope.
C14_EmitsReachQueue ==
    /\ last.op = "create_sse_server" => (~last.raised /\ server = "factory")
    /\ (last.op \in {"workflow_started", "progress_update"}
           /\ server = "factory" /\ subscribers # {}) =>
          \E k \in 1..Len(event_queue) :
             /\ event_queue[k].type = "workflow_event"
             /\ event_queue[k].event.event_id = last.event.event_id

\* the messages of a stream: nothing before it starts, then one connection
\* message with the stream's client id, then heartbeats (or event envelopes),
\* one heartbeat for each round of the loop
StreamShape(st) ==
    IF st.pc = "new" THEN st.out = <<>>
    ELSE /\ Len(st.out) >= 1
         /\ st.out[1].type = "connection"
         /\ st.out[1].client_id = st.client_id
         /\ \A k \in 2..Len(st.out) : st.out[k].type \in {"heartbeat", "workflow_event"}
         /\ Cardinality({k \in 1..Len(st.out) : st.out[k].type = "heartbeat"}) = st.beats

\* C15: the messages of every listener connection are one connection message
\* carrying its client id, first, then only heartbeat (and workflow_event)
\* messages, one heartbeat per round of the heartbeat loop; a closed stream
\* yields nothing more and stays closed.
C15_StreamMessages ==
    [][/\ \A c \in Conns : StreamShape(streams'[c])
       /\ \A c \in Conns : streams[c].pc = "closed" => streams'[c] = streams[c]]_vars

C15_Witness ==
    \E c \in Conns :
        /\ streams[c].pc = "closed"
        /\ Len(streams[c].out) = 3
        /\ streams[c].out[1].type = "connection"
        /\ streams[c].out[3].type = "heartbeat"
        /\ last.op = "stream_next"
        /\ last.conn # c

\* C16: when a listener's stream ends, by the client's disconnect or by an
\* error inside the loop, its client id is not in the subscriber set after the
\* step, and the producer's side (the queue, the running flag, the
\* broadcasting thread) is left as it was.
C16_StreamEndUnsubscribes ==
    [][\A c \in Conns :
          (streams[c].pc # "closed" /\ streams'[c].pc = "closed") =>
             /\ streams[c].client_id \notin subscribers'
             /\ event_queue' = event_queue
             /\ running' = running
             /\ broadcast_thread' = broadcast_thread]_vars

C16_Witness ==
    /\ last.op = "stream_error"
    /\ streams[last.conn].pc = "closed"
    /\ streams[last.conn].beats = 1
    /\ streams[last.conn].client_id \notin subscribers
    /\ \E c \in Conns : Listening(c) /\ subscribers = {streams[c].client_id}
    /\ event_queue # <<>>

\* C17: a broadcast_event call never waits: it returns at once whatever the
\* number of connected listeners, the length of the queue and the state of
\* the broadcasting thread.
C17_ProducerNeverBlocked == last.op = "broadcast_event" => ~last.blocked

C17_Witness ==
    /\ last.op = "broadcast_event"
    /\ ~last.blocked
    /\ Cardinality(subscribers) = 2
    /\ last.queued >= 1
    /\ Len(event_queue) = last.queued + 1
    /\ broadcast_thread \in {"none", "dead"}

\* the envelopes taken off the queue so far, in the order they were taken
DrainedEnvs(d) == [i \in 1..Len(d) |-> d[i].env]

\* the broadcast loop is running: the flag is set and the thread is in the loop
Looping == running /\ broadcast_thread \in {"testing", "draining"}

\* the envelope of event k is on the queue / has been handed over
Queued(k) == \E i \in 1..Len(event_queue) : event_queue[i].event.event_id = k

Handed(k) == \E i \in 1..Len(drained) : drained[i].env.event.event_id = k

\* C22: the envelopes handed to _send_to_subscribers followed by those still
\* queued are always the envelopes put on the queue, each once and in the
\* order they were put (a step only extends that sequence at its end); while
\* the loop is running every queued envelope is eventually handed over, and
\* the queue is empty again and again.
C22_QueueDrainedFifo ==
    /\ [][LET was == DrainedEnvs(drained) \o event_queue
              is == DrainedEnvs(drained') \o event_queue'
          IN  /\ Len(is) >= Len(was)
              /\ SubSeq(is, 1, Len(was)) = was
              /\ \A i, j \in 1..Len(is) :
                    i < j => is[i].event.event_id < is[j].event.event_id]_vars
    /\ \A k \in 1..(MaxEvents + 1) : Queued(k) ~> (Handed(k) \/ ~Looping)
    /\ []<>(event_queue = <<>> \/ ~Looping)

C22_Witness ==
    /\ Looping
    /\ event_queue = <<>>
    /\ Len(drained) = 2
    /\ drained[1].env.event.event_id = 1
    /\ drained[2].env.event.event_id = 2
    /\ drained[2].subs # {}

\* C27: simultaneously open listener connections have pairwise distinct
\* client ids, so the subscriber set is as large as the number of open
\* connections, and a listener's id stays in the set (and its heartbeat loop
\* goes on) until that listener itself disconnects.
C27_DistinctClientIds ==
    /\ \A c, d \in Conns :
          (c # d /\ Listening(c) /\ Listening(d)) =>
             streams[c].client_id # streams[d].client_id
    /\ Cardinality(subscribers) = Cardinality({c \in Conns : Listening(c)})
    /\ \A c \in Conns : Listening(c) => streams[c].client_id \in subscribers

\* C28: under any interleaving of start_broadcasting and stop_broadcasting
\* calls at most one broadcast loop thread is alive at any time, and a
\* start_broadcasting call that began after a stop_broadcasting call began
\* (with no stop beginning during it) returns with a loop alive and running
\* set.
C28_OneLoopAndRestart ==
    /\ Cardinality(AliveLoops(bcast)) <= 1
    /\ (last.op = "start_broadcasting" /\ last.after_stop /\ ~last.overtaken) =>
          /\ bcast.running
          /\ AliveLoops(bcast) # {}

(***************************************************************************)
(* Properties of the mock server                                           *)
(***************************************************************************)
\* C23: no two events one MockEventGenerator produces share an event_id, over
\* any number of consecutive mock workflow runs on one MockSSEServer: the id
\* of each event is not the id of an earlier one.
C23_MockEventIdsUnique ==
    last.op = "mock_event" => last.event.event_id \notin last.earlier

\* C29: under any interleaving of concurrent /mock/start-workflow requests at
\* most one simulation thread is active at any time, and when a simulation
\* has ended (normally or by exception) running is False.
C29_OneSimulation ==
    /\ Cardinality(ActiveSims(mock)) <= 1
    /\ last.op = "mock_workflow_ended" => ~mock.running

=============================================================================
